---------------------------- MODULE Spec2Model ----------------------------
(***************************************************************************)
(* State-reconciliation core of the Remote Command Center front ends.      *)
(*                                                                         *)
(*   client-app/src/App.tsx   the zustand store (login, logout, fetchData, *)
(*                            execute, integrateEvent, setServerUrl), the  *)
(*                            hooks useHydrateSession and useLiveEvents,   *)
(*                            and CommandDetailSheet.handleExecute         *)
(*   unnamed/part_000         the server console: useCommandCenterData     *)
(*                            (refresh and the event listener)             *)
(*                                                                         *)
(* Strings that the code only stores and compares are TLA+ strings; a      *)
(* string the code takes apart (URLs, parameter text) is a sequence of     *)
(* one-character strings.  An optional value is a sequence of length 0     *)
(* or 1.                                                                   *)
(***************************************************************************)
EXTENDS Integers, Sequences, FiniteSets, TLC

VARIABLES
  app,              \* which front end runs: "client" or "console"
  commands,         \* StoreState.commands / useCommandCenterData commands
  history,          \* StoreState.history  / useCommandCenterData history
  serverUrl,        \* StoreState.serverUrl
  token,            \* StoreState.token, "" when unauthenticated
  status,           \* StoreState.status
  socketConnected,  \* StoreState.socketConnected
  loading,          \* StoreState.loading / useCommandCenterData loading
  error,            \* StoreState.error / useCommandCenterData error, <<>> when unset
  localStorage,     \* window.localStorage: key -> <<>> (absent) or <<value>>
  requests,         \* the network calls awaiting their response
  issued,           \* how many network calls were made so far
  hydrateDeps,      \* useHydrateSession: <<token>> of its last run, <<>> before the first
  liveDeps,         \* useLiveEvents: <<serverUrl, token, status>> of its last run
  socketRef,        \* useLiveEvents: socketRef.current, 0 for null
  sockets,          \* every WebSocket created: its readyState
  selectedCommand,  \* Dashboard: selectedCommand, <<>> for null
  parameterInput,   \* CommandDetailSheet: parameterInput
  sheetError,       \* CommandDetailSheet: error, <<>> for null
  executing,        \* Dashboard: executing
  lastOp,           \* the handler (and branch of it) that ran last
  received,         \* observer: the latest payload integrated for each log id
  stable,           \* observer: no log id has been integrated with two instants
  delivered,        \* observer: the events integrated so far, in order
  isMounted,        \* console: the flag of the listener effect's closure
  unlistenPromise,  \* console: what listen() has come to ("none" in the client)
  formMode,         \* console: 'create' or 'edit'
  executionMessage, \* console: the message line, <<>> for null
  busyCommandId     \* console: the command being executed, <<>> for null

collVars == <<commands, history>>
sessionVars == <<serverUrl, token, status, socketConnected, loading, error, localStorage>>
requestVars == <<requests, issued>>
effectVars == <<hydrateDeps, liveDeps, socketRef, sockets>>
sheetVars == <<selectedCommand, parameterInput, sheetError, executing>>
observerVars == <<received, stable, delivered>>
listenerVars == <<isMounted, unlistenPromise>>
formVars == <<formMode, executionMessage, busyCommandId>>
vars == <<app, commands, history, serverUrl, token, status, socketConnected, loading,
          error, localStorage, requests, issued, hydrateDeps, liveDeps, socketRef,
          sockets, selectedCommand, parameterInput, sheetError, executing, lastOp,
          received, stable, delivered, isMounted, unlistenPromise, formMode, executionMessage,
          busyCommandId>>

(***************************************************************************)
(* Bounds of the model.                                                    *)
(***************************************************************************)
MaxCmdIds == 2        \* command ids 1..MaxCmdIds
MaxLogIds == 2        \* execution-log ids 1..MaxLogIds
MaxStartedAt == 2     \* timestamp strings 0..MaxStartedAt

(***************************************************************************)
(* Program constants.                                                      *)
(***************************************************************************)
HistoryLimit == 100   \* .slice(0, 100)

(***************************************************************************)
(* Data.                                                                   *)
(***************************************************************************)
CmdIds == 1..MaxCmdIds
LogIds == 1..MaxLogIds

\* Command names: "B" sorts before "a" by code unit, after it ignoring case.
Names == {"a", "B", "b"}

ExecutionStatus == {"pending", "running", "success", "error"}

\* Timestamp strings.  String 0 is the instant of string 2 written with a
\* zone offset: parsing is neither injective nor monotone in the string.
StartedAts == 0..MaxStartedAt

CommandDefinition == [id : CmdIds, name : Names, allowArguments : {TRUE}, args : {<<>>}]

ExecutionLog == [id : LogIds, status : ExecutionStatus, startedAt : StartedAts]

\* The remote authority announces a log under the type its status goes with.
executionEventType(st) ==
  IF st = "pending" THEN "execution_started"
  ELSE IF st = "running" THEN "execution_updated"
  ELSE "execution_finished"

ServerEvent ==
       [type : {"command_created", "command_updated"}, payload : CommandDefinition]
  \cup [type : {"command_deleted"}, payload : [id : CmdIds]]
  \cup {[type |-> executionEventType(l.status), payload |-> l] : l \in ExecutionLog}

CommandUpsertTypes == {"command_created", "command_updated"}
ExecutionTypes == {"execution_started", "execution_updated", "execution_finished"}

(***************************************************************************)
(* Library functions the code calls.                                       *)
(***************************************************************************)
\* String.prototype.toLowerCase on a name.
toLowerCase(s) == IF s = "B" THEN "b" ELSE s

\* The position of a lower-cased name in the collation order that
\* String.prototype.localeCompare decides by.
collationRank(s) == IF s = "a" THEN 1 ELSE 2

\* a.localeCompare(b): negative, zero or positive.
localeCompare(a, b) == collationRank(a) - collationRank(b)

\* dayjs(s).valueOf(): the instant a timestamp string denotes.
dayjsValueOf(s) == IF s = 0 THEN 1 ELSE s - 1

\* Array.prototype.sort with a comparator that is the difference of a key,
\* keys[i] being the key of arr[i]: the sort is stable, so the result lists,
\* key by key in ascending order, the elements bearing that key in the order
\* they had in arr.
unkeyed(pairs) == [i \in 1..Len(pairs) |-> pairs[i][2]]

arraySort(arr, keys) ==
  LET keyed == [i \in 1..Len(arr) |-> <<keys[i], arr[i]>>]
      present == {keys[i] : i \in 1..Len(arr)}
      lo == CHOOSE v \in present : \A w \in present : v <= w
      hi == CHOOSE v \in present : \A w \in present : v >= w
      from[v \in Int] ==
        IF v > hi THEN <<>>
        ELSE SelectSeq(keyed, LAMBDA pair : pair[1] = v) \o from[v + 1]
  IN IF arr = <<>> THEN <<>> ELSE unkeyed(from[lo])

\* Array.prototype.slice(0, n)
sliceFromEnd(arr, n) == SubSeq(arr, IF Len(arr) < n THEN 1 ELSE Len(arr) - n + 1, Len(arr))
slice0(arr, n) == SubSeq(arr, 1, IF Len(arr) < n THEN Len(arr) ELSE n)

\* Array.prototype.filter((item) => item.id !== id)
filterOutId(arr, id) == SelectSeq(arr, LAMBDA item : item.id # id)

Ids(arr) == {arr[i].id : i \in 1..Len(arr)}

(***************************************************************************)
(* The comparators of the two sorts, as keys sorted ascending.             *)
(*   (a, b) => a.name.toLowerCase().localeCompare(b.name.toLowerCase())    *)
(*   (a, b) => dayjs(b.startedAt).valueOf() - dayjs(a.startedAt).valueOf() *)
(***************************************************************************)
commandSortKeyCaseSensitive(c) == IF c.name = "B" THEN 0 ELSE collationRank(c.name)
commandSortKey(c) == collationRank(toLowerCase(c.name))

historySortKey(l) == 0 - dayjsValueOf(l.startedAt)

\* The keys of a whole array, and the two sorts of the store.
byNameCaseSensitive(arr) == [i \in 1..Len(arr) |-> commandSortKeyCaseSensitive(arr[i])]
byName(arr) == [i \in 1..Len(arr) |-> commandSortKey(arr[i])]
byStartedAtDescending(arr) == [i \in 1..Len(arr) |-> historySortKey(arr[i])]
sortByName(arr) == arraySort(arr, byName(arr))
sortByStartedAtDescending(arr) == arraySort(arr, byStartedAtDescending(arr))

(***************************************************************************)
(* Persisted local state.                                                  *)
(***************************************************************************)
SESSION_STORAGE_KEY == "rcc.client.session"
SERVER_STORAGE_KEY == "rcc.client.server"

NoStorage == [k \in {SESSION_STORAGE_KEY, SERVER_STORAGE_KEY} |-> <<>>]

HttpsH == <<"h", "t", "t", "p", "s", ":", "/", "/", "h">>

(***************************************************************************)
(* integrateEvent: the state updater of the client store.                  *)
(***************************************************************************)
upsertCommandAppend(cmds, payload) ==
  sortByName(cmds \o <<payload>>)
upsertCommand(cmds, payload) ==
  sortByName(<<payload>> \o filterOutId(cmds, payload.id))

deleteCommand(cmds, id) == filterOutId(cmds, id)

upsertExecutionNoFilter(hist, payload) ==
  slice0(sortByStartedAtDescending(<<payload>> \o hist), HistoryLimit)
upsertExecutionNoSlice(hist, payload) ==
  sortByStartedAtDescending(<<payload>> \o filterOutId(hist, payload.id))
upsertExecutionKeepExisting(hist, payload) ==
  IF payload.id \in Ids(hist) THEN hist
  ELSE slice0(sortByStartedAtDescending(<<payload>> \o hist), HistoryLimit)
upsertExecution(hist, payload) ==
  slice0(sortByStartedAtDescending(<<payload>> \o filterOutId(hist, payload.id)),
         HistoryLimit)

\* A reconciler whose command_deleted also drops the log of that id.
integrateEventResultDroppingLogs(state, event) ==
  IF event.type \in CommandUpsertTypes
    THEN [state EXCEPT !.commands = upsertCommand(state.commands, event.payload)]
  ELSE IF event.type = "command_deleted"
    THEN [commands |-> deleteCommand(state.commands, event.payload.id),
          history |-> filterOutId(state.history, event.payload.id)]
  ELSE IF event.type \in ExecutionTypes
    THEN [state EXCEPT !.history = upsertExecution(state.history, event.payload)]
  ELSE state

\* The collections after set((state) => { switch (event.type) ... }).
integrateEventResult(state, event) ==
  IF event.type \in CommandUpsertTypes
    THEN [state EXCEPT !.commands = upsertCommand(state.commands, event.payload)]
  ELSE IF event.type = "command_deleted"
    THEN [state EXCEPT !.commands = deleteCommand(state.commands, event.payload.id)]
  ELSE IF event.type \in ExecutionTypes
    THEN [state EXCEPT !.history = upsertExecution(state.history, event.payload)]
  ELSE state

Collections == [commands |-> commands, history |-> history]

\* Which branch of integrateEvent an event takes in the current state.
integrateBranch(event) ==
  IF event.type \in CommandUpsertTypes
    THEN IF event.payload.id \in Ids(commands) THEN "command:replace" ELSE "command:insert"
  ELSE IF event.type = "command_deleted"
    THEN IF event.payload.id \in Ids(commands) THEN "command:delete" ELSE "command:delete-absent"
  ELSE IF event.payload.id \in Ids(history) THEN "execution:replace" ELSE "execution:insert"

integrateEvent(event) ==
  /\ app = "client"
  /\ commands' = integrateEventResult(Collections, event).commands
  /\ history' = integrateEventResult(Collections, event).history
  /\ lastOp' = integrateBranch(event)
  /\ UNCHANGED <<formVars, listenerVars, sheetVars, app, sessionVars, requestVars, effectVars>>

(***************************************************************************)
(* normalizeServerUrl                                                      *)
(***************************************************************************)
isWhitespace(c) == c \in {" ", "\n", "\t"}

\* String.prototype.trim
trim(str) ==
  LET kept == {i \in 1..Len(str) : ~isWhitespace(str[i])}
  IN IF kept = {} THEN <<>>
     ELSE SubSeq(str, CHOOSE i \in kept : \A j \in kept : i <= j,
                      CHOOSE i \in kept : \A j \in kept : i >= j)

\* str.replace(/\/+$/, '')
stripTrailingSlashes(str) ==
  LET kept == {i \in 1..Len(str) : str[i] # "/"}
  IN IF kept = {} THEN <<>>
     ELSE SubSeq(str, 1, CHOOSE i \in kept : \A j \in kept : i >= j)

lowerChar(c) ==
  IF c = "H" THEN "h" ELSE IF c = "T" THEN "t" ELSE IF c = "P" THEN "p"
  ELSE IF c = "S" THEN "s" ELSE c

startsWithIgnoringCase(str, prefix) ==
  /\ Len(str) >= Len(prefix)
  /\ \A i \in 1..Len(prefix) : lowerChar(str[i]) = prefix[i]

\* /^https?:\/\//i.test(str)
hasHttpScheme(str) ==
  \/ startsWithIgnoringCase(str, <<"h", "t", "t", "p", ":", "/", "/">>)
  \/ startsWithIgnoringCase(str, <<"h", "t", "t", "p", "s", ":", "/", "/">>)

normalizeServerUrl(input) ==
  LET trimmed == trim(input)
      withoutTrailingSlash == stripTrailingSlashes(trimmed)
  IN IF trimmed = <<>> THEN <<>>
     ELSE IF ~hasHttpScheme(withoutTrailingSlash)
       THEN <<"h", "t", "t", "p", "s", ":", "/", "/">> \o withoutTrailingSlash
     ELSE withoutTrailingSlash

(***************************************************************************)
(* What the user types and what the remote authority answers.              *)
(***************************************************************************)
MaxRequests == 3      \* network calls made in one run

\* Server addresses typed into the login form: a blank one and "h/".
UrlInputs == { <<" ">>, <<"h", "/">> }

Tokens == {"t1"}

\* A failed call: the remote authority refused it with a message body and
\* a status text, it answered an error without a message body, or no
\* response came at all.
Failures ==
  { [isAxiosError |-> TRUE, response |-> <<[status |-> 401,
                                            dataMessage |-> <<"Invalid credentials">>,
                                            statusText |-> "Unauthorized"]>>,
     message |-> "Request failed with status code 401"],
    [isAxiosError |-> TRUE, response |-> <<[status |-> 502,
                                            dataMessage |-> <<>>,
                                            statusText |-> "Bad Gateway"]>>,
     message |-> "Request failed with status code 502"],
    [isAxiosError |-> TRUE, response |-> <<>>, message |-> "Network Error"] }

\* error.message whatever the response holds.
failureMessageIgnoringBody(failure, fallback) == failure.message

\* error.response?.data?.message ?? error.response?.statusText ?? fallback
\* for an axios error, (error as Error).message otherwise.
failureMessage(failure, fallback) ==
  IF failure.isAxiosError
    THEN IF failure.response # <<>> /\ failure.response[1].dataMessage # <<>>
           THEN failure.response[1].dataMessage[1]
         ELSE IF failure.response # <<>> THEN failure.response[1].statusText
         ELSE fallback
  ELSE failure.message

\* The catalogs and histories the remote authority answers a snapshot pull
\* with, in the order it lists them.
CmdB1 == [id |-> 1, name |-> "B", allowArguments |-> TRUE, args |-> <<>>]
CmdA2 == [id |-> 2, name |-> "a", allowArguments |-> TRUE, args |-> <<>>]
Log1 == [id |-> 1, status |-> "running", startedAt |-> 1]
Log2 == [id |-> 2, status |-> "success", startedAt |-> 0]

CatalogResponses == { <<>>, <<CmdB1, CmdA2>> }
HistoryResponses == { <<>>, <<Log1, Log2>> }

\* The events the remote authority pushes in a run of the whole client.
PushedEvents ==
  { [type |-> "command_updated", payload |-> CmdB1],
    [type |-> "command_created", payload |-> CmdA2],
    [type |-> "command_deleted", payload |-> [id |-> 1]],
    [type |-> "execution_updated", payload |-> Log1],
    [type |-> "execution_finished", payload |-> Log2] }

(***************************************************************************)
(* The session store: setServerUrl, login, logout.                         *)
(***************************************************************************)
\* JSON.stringify({ serverUrl, token }) as stored, JSON.parse as read back.
SessionRecord(url, tok) == [serverUrl |-> url, token |-> tok]

\* The storage after setServerUrl(url).
\* setServerUrl writing the address record only.
storageAfterSetServerUrlAddressOnly(normalizedUrl) ==
  [localStorage EXCEPT ![SERVER_STORAGE_KEY] = <<normalizedUrl>>]

storageAfterSetServerUrl(normalizedUrl) ==
  [localStorage EXCEPT
     ![SERVER_STORAGE_KEY] = <<normalizedUrl>>,
     ![SESSION_STORAGE_KEY] =
        IF @ = <<>> THEN <<>> ELSE <<[@[1] EXCEPT !.serverUrl = normalizedUrl]>>]

\* React runs the effects of a render before it handles whatever renders
\* next, useHydrateSession before useLiveEvents as App calls them: while an
\* effect is due no other handler runs.
HydrateDue == hydrateDeps # <<token>>
LiveDue == liveDeps # <<serverUrl, token, status>>
Settled == ~HydrateDue /\ ~LiveDue

\* LoginView is rendered while the token is empty, Dashboard otherwise.
LoginViewShown == app = "client" /\ Settled /\ token = ""
DashboardShown == app = "client" /\ Settled /\ token # ""

LoginInFlight == \E r \in requests : r.kind = "login"

\* LoginView: onBlur={() => setServerUrl(serverUrl)}
setServerUrl(url) ==
  /\ LoginViewShown
  /\ serverUrl' = normalizeServerUrl(url)
  /\ localStorage' = storageAfterSetServerUrl(normalizeServerUrl(url))
  /\ lastOp' = "setServerUrl"
  /\ UNCHANGED <<formVars, listenerVars, observerVars, sheetVars, app, collVars, token, status, socketConnected, loading, error,
                 requestVars, effectVars>>

\* LoginView.handleSubmit up to the await inside login: clearError(),
\* setServerUrl(serverUrl), then login({ serverUrl, ... }) which either
\* refuses a blank address or posts the credentials.
login(url) ==
  /\ LoginViewShown
  /\ ~LoginInFlight /\ ~loading /\ status # "connecting"   \* the submit button is enabled
  /\ localStorage' = storageAfterSetServerUrl(normalizeServerUrl(url))
  /\ serverUrl' = normalizeServerUrl(url)
  /\ IF normalizeServerUrl(url) = <<>>
       THEN /\ error' = <<"Please provide a server URL.">>
            /\ lastOp' = "login:missing-url"
            /\ UNCHANGED <<status, loading, requestVars>>
       ELSE /\ issued < MaxRequests
            /\ status' = "connecting"
            /\ error' = <<>>
            /\ loading' = TRUE
            /\ issued' = issued + 1
            /\ requests' = requests \cup
                 {[n |-> issued + 1, kind |-> "login", url |-> normalizeServerUrl(url),
                   token |-> "", catalog |-> <<>>, log |-> <<>>]}
            /\ lastOp' = "login:post"
  /\ UNCHANGED <<formVars, listenerVars, observerVars, sheetVars, app, collVars, token, socketConnected, effectVars>>

\* login after the await: the response arrived.
loginResolved(r, tok) ==
  /\ Settled
  /\ r \in requests /\ r.kind = "login"
  /\ token' = tok
  /\ status' = "connected"
  /\ loading' = FALSE
  /\ localStorage' = [localStorage EXCEPT
                        ![SESSION_STORAGE_KEY] = <<SessionRecord(r.url, tok)>>]
  /\ requests' = requests \ {r}
  /\ lastOp' = "login:ok"
  /\ UNCHANGED <<formVars, listenerVars, observerVars, sheetVars, app, collVars, serverUrl, socketConnected, error, issued, effectVars>>

\* login after the await: the call failed.
loginRejected(r, failure) ==
  /\ Settled
  /\ r \in requests /\ r.kind = "login"
  /\ status' = "disconnected"
  /\ loading' = FALSE
  /\ error' = <<failureMessage(failure, "Unable to authenticate")>>
  /\ token' = ""
  /\ localStorage' = [localStorage EXCEPT ![SESSION_STORAGE_KEY] = <<>>]
  /\ requests' = requests \ {r}
  /\ lastOp' = "login:catch"
  /\ UNCHANGED <<formVars, listenerVars, observerVars, sheetVars, app, collVars, serverUrl, socketConnected, issued, effectVars>>

\* What logout sets.
logoutKeepingCollections ==
  /\ token' = ""
  /\ status' = "disconnected"
  /\ socketConnected' = FALSE
  /\ UNCHANGED <<commands, history>>
  /\ localStorage' = [localStorage EXCEPT ![SESSION_STORAGE_KEY] = <<>>]
logoutEffect ==
  /\ token' = ""
  /\ status' = "disconnected"
  /\ socketConnected' = FALSE
  /\ commands' = <<>>
  /\ history' = <<>>
  /\ localStorage' = [localStorage EXCEPT ![SESSION_STORAGE_KEY] = <<>>]

\* Dashboard: the "Sign out" button.
\* Dashboard gives way to LoginView: its state and the sheet's are dropped,
\* and nothing awaits the execute calls it made any more.
dashboardUnmounted ==
  /\ selectedCommand' = <<>>
  /\ parameterInput' = <<>>
  /\ sheetError' = <<>>
  /\ executing' = FALSE
  /\ requests' = {IF r.kind = "execute" THEN [r EXCEPT !.awaited = FALSE] ELSE r :
                    r \in requests}

logout ==
  /\ DashboardShown
  /\ logoutEffect
  /\ dashboardUnmounted
  /\ lastOp' = "logout"
  /\ UNCHANGED <<formVars, listenerVars, observerVars, app, serverUrl, loading, error, issued, effectVars>>

(***************************************************************************)
(* fetchData, and useHydrateSession which calls it.                        *)
(***************************************************************************)
sortCommandsCaseSensitive(data) == arraySort(data, byNameCaseSensitive(data))
sortCommands(data) == sortByName(data)
sortHistory(data) == sortByStartedAtDescending(data)

\* fetchData without its early return: both pulls are sent whatever the
\* address and the token are.
fetchDataStartUnguarded ==
  /\ issued < MaxRequests
  /\ loading' = TRUE
  /\ error' = <<>>
  /\ issued' = issued + 1
  /\ requests' = requests \cup
       {[n |-> issued + 1, kind |-> "fetchData", url |-> serverUrl,
         token |-> token, catalog |-> <<>>, log |-> <<>>]}

\* fetchData up to its await: nothing without an address and a token,
\* else both pulls are sent.
fetchDataStart ==
  IF serverUrl = <<>> \/ token = ""
    THEN UNCHANGED <<loading, error, requestVars>>
  ELSE /\ issued < MaxRequests
       /\ loading' = TRUE
       /\ error' = <<>>
       /\ issued' = issued + 1
       /\ requests' = requests \cup
            {[n |-> issued + 1, kind |-> "fetchData", url |-> serverUrl,
              token |-> token, catalog |-> <<>>, log |-> <<>>]}

\* useHydrateSession: the effect runs when token differs from its last run.
useHydrateSession ==
  /\ app = "client"
  /\ HydrateDue
  /\ hydrateDeps' = <<token>>
  /\ IF token # "" THEN fetchDataStart ELSE UNCHANGED <<loading, error, requestVars>>
  /\ lastOp' = IF token # "" THEN "fetchData:start" ELSE "useHydrateSession:skip"
  /\ UNCHANGED <<formVars, listenerVars, observerVars, sheetVars, app, collVars, serverUrl, token, status, socketConnected, localStorage,
                 liveDeps, socketRef, sockets>>

\* What fetchData sets once both pulls have succeeded.
fetchDataResolved(catalog, log) ==
  /\ commands' = sortCommands(catalog)
  /\ history' = sortHistory(log)
  /\ loading' = FALSE
  /\ status' = "connected"

\* GET /api/commands answered: Promise.all waits for the history, or has
\* both and fetchData goes on.
fetchCatalogArrived(r, data) ==
  /\ Settled
  /\ r \in requests /\ r.kind = "fetchData" /\ r.catalog = <<>>
  /\ IF r.log = <<>>
       THEN /\ requests' = (requests \ {r}) \cup {[r EXCEPT !.catalog = <<data>>]}
            /\ lastOp' = "fetchData:wait"
            /\ UNCHANGED <<collVars, loading, status>>
       ELSE /\ fetchDataResolved(data, r.log[1])
            /\ requests' = requests \ {r}
            /\ lastOp' = "fetchData:ok"
  /\ UNCHANGED <<formVars, listenerVars, observerVars, sheetVars, app, serverUrl, token, socketConnected, error, localStorage, issued,
                 effectVars>>

\* GET /api/history answered.
fetchHistoryArrived(r, data) ==
  /\ Settled
  /\ r \in requests /\ r.kind = "fetchData" /\ r.log = <<>>
  /\ IF r.catalog = <<>>
       THEN /\ requests' = (requests \ {r}) \cup {[r EXCEPT !.log = <<data>>]}
            /\ lastOp' = "fetchData:wait"
            /\ UNCHANGED <<collVars, loading, status>>
       ELSE /\ fetchDataResolved(r.catalog[1], data)
            /\ requests' = requests \ {r}
            /\ lastOp' = "fetchData:ok"
  /\ UNCHANGED <<formVars, listenerVars, observerVars, sheetVars, app, serverUrl, token, socketConnected, error, localStorage, issued,
                 effectVars>>

\* The catch block of fetchData without its loading: false.
fetchDataCatchLeavingLoading(failure) ==
  /\ error' = <<failureMessage(failure, "Unable to reach server")>>
  /\ UNCHANGED <<loading, commands, history>>

\* What the catch block of fetchData sets.
fetchDataCatchClearing(failure) ==
  /\ loading' = FALSE
  /\ error' = <<failureMessage(failure, "Unable to reach server")>>
  /\ commands' = <<>>
  /\ history' = <<>>
fetchDataCatch(failure) ==
  /\ loading' = FALSE
  /\ error' = <<failureMessage(failure, "Unable to reach server")>>
  /\ UNCHANGED <<commands, history>>

\* One of the two pulls failed (the other answered or not): Promise.all
\* rejects and the catch block runs; the other answer is never looked at.
fetchRejected(r, failure) ==
  /\ Settled
  /\ r \in requests /\ r.kind = "fetchData"
  /\ fetchDataCatch(failure)
  /\ requests' = requests \ {r}
  /\ lastOp' = (IF r.catalog = <<>> /\ r.log = <<>>
                  THEN "fetchData:catch" ELSE "fetchData:catch-after-answer")
  /\ UNCHANGED <<formVars, listenerVars, observerVars, sheetVars, app, serverUrl, token, status, socketConnected, localStorage, issued,
                 effectVars>>

(***************************************************************************)
(* useLiveEvents and the WebSockets it creates.                            *)
(***************************************************************************)
MaxSockets == 2       \* WebSockets created in one run

\* WebSocket.close() left out of the effect's cleanup.
closedNot(state) == state

\* WebSocket.close(): a socket that is connecting or open starts closing.
closed(state) == IF state \in {"connecting", "open"} THEN "closing" ELSE state

\* The effect runs when serverUrl, token or status differ from its last
\* run: the cleanup of the last run (if it had created a socket), then the
\* body.
useLiveEvents ==
  /\ app = "client"
  /\ ~HydrateDue /\ LiveDue
  /\ liveDeps' = <<serverUrl, token, status>>
  /\ LET cleaned == IF socketRef = 0 THEN sockets
                    ELSE [sockets EXCEPT ![socketRef] = closed(@)]
         connects == serverUrl # <<>> /\ token # "" /\ status # "disconnected"
     IN IF connects
          THEN /\ Len(sockets) < MaxSockets
               /\ sockets' = Append(cleaned, "connecting")
               /\ socketRef' = Len(sockets) + 1
               /\ socketConnected' = FALSE
               /\ lastOp' = "useLiveEvents:connect"
          ELSE /\ sockets' = cleaned
               /\ socketRef' = 0
               /\ socketConnected' = (IF socketRef = 0 THEN socketConnected ELSE FALSE)
               /\ lastOp' = "useLiveEvents:idle"
  /\ UNCHANGED <<formVars, listenerVars, observerVars, sheetVars, app, collVars, serverUrl, token, status, loading, error, localStorage,
                 requestVars, hydrateDeps>>

\* socket.addEventListener('open', ...)
socketOpen(i) ==
  /\ Settled
  /\ i \in 1..Len(sockets) /\ sockets[i] = "connecting"
  /\ sockets' = [sockets EXCEPT ![i] = "open"]
  /\ socketConnected' = TRUE
  /\ lastOp' = "socket:open"
  /\ UNCHANGED <<formVars, listenerVars, observerVars, sheetVars, app, collVars, serverUrl, token, status, loading, error, localStorage,
                 requestVars, hydrateDeps, liveDeps, socketRef>>

\* socket.addEventListener('error', ...): the connection failed; its close
\* event is still to come.
socketError(i) ==
  /\ Settled
  /\ i \in 1..Len(sockets) /\ sockets[i] \in {"connecting", "open"}
  /\ sockets' = [sockets EXCEPT ![i] = "closing"]
  /\ socketConnected' = FALSE
  /\ lastOp' = "socket:error"
  /\ UNCHANGED <<formVars, listenerVars, observerVars, sheetVars, app, collVars, serverUrl, token, status, loading, error, localStorage,
                 requestVars, hydrateDeps, liveDeps, socketRef>>

\* A close listener that also drops what the store holds.
socketCloseDropping(i) ==
  /\ Settled
  /\ i \in 1..Len(sockets) /\ sockets[i] \in {"connecting", "open", "closing"}
  /\ sockets' = [sockets EXCEPT ![i] = "closed"]
  /\ socketConnected' = FALSE
  /\ commands' = <<>>
  /\ history' = <<>>
  /\ lastOp' = "socket:close"
  /\ UNCHANGED <<formVars, listenerVars, observerVars, sheetVars, app, serverUrl, token, status, loading, error,
                 localStorage, requestVars, hydrateDeps, liveDeps, socketRef>>

\* socket.addEventListener('close', ...): closed by the remote side, by a
\* failure, or after close() was called on it.
socketClose(i) ==
  /\ Settled
  /\ i \in 1..Len(sockets) /\ sockets[i] \in {"connecting", "open", "closing"}
  /\ sockets' = [sockets EXCEPT ![i] = "closed"]
  /\ socketConnected' = FALSE
  /\ lastOp' = "socket:close"
  /\ UNCHANGED <<formVars, listenerVars, observerVars, sheetVars, app, collVars, serverUrl, token, status, loading, error, localStorage,
                 requestVars, hydrateDeps, liveDeps, socketRef>>

\* socket.addEventListener('message', ...) with a well-formed event: an
\* open socket delivers it to integrateEvent.
socketMessage(i, event) ==
  /\ Settled
  /\ i \in 1..Len(sockets) /\ sockets[i] = "open"
  /\ integrateEvent(event)
  /\ UNCHANGED <<formVars, listenerVars, observerVars>>

(***************************************************************************)
(* The server console: useCommandCenterData.                               *)
(***************************************************************************)
\* A failed invoke: an Error, or the plain string the backend rejects with.
ConsoleFailures ==
  { [isError |-> TRUE, message |-> "The server console must run inside the Tauri shell."],
    [isError |-> FALSE, message |-> "backend error"] }

\* err instanceof Error ? err.message : 'Failed to load data'
consoleFailureMessage(failure) ==
  IF failure.isError THEN failure.message ELSE "Failed to load data"

\* refresh up to its await ("Refresh data", and once on mount).
refresh ==
  /\ app = "console"
  /\ isMounted
  /\ issued < MaxRequests
  /\ loading' = TRUE
  /\ issued' = issued + 1
  /\ requests' = requests \cup
       {[n |-> issued + 1, kind |-> "refresh", url |-> <<>>, token |-> "",
         catalog |-> <<>>, log |-> <<>>]}
  /\ lastOp' = "refresh:start"
  /\ UNCHANGED <<formVars, listenerVars, observerVars, sheetVars, app, collVars, serverUrl, token, status, socketConnected,
                 error, localStorage, effectVars>>

\* What refresh sets once both invokes have succeeded.
refreshResolved(commandList, historyList) ==
  /\ commands' = commandList
  /\ history' = historyList
  /\ error' = <<>>
  /\ loading' = FALSE

\* list_commands or list_history answered.
refreshAnswered(r, which, data) ==
  /\ isMounted
  /\ r \in requests /\ r.kind = "refresh" /\ r[which] = <<>>
  /\ LET other == IF which = "catalog" THEN "log" ELSE "catalog"
     IN IF r[other] = <<>>
          THEN /\ requests' = (requests \ {r}) \cup {[r EXCEPT ![which] = <<data>>]}
               /\ lastOp' = "refresh:wait"
               /\ UNCHANGED <<collVars, loading, error>>
          ELSE /\ IF which = "catalog" THEN refreshResolved(data, r.log[1])
                                      ELSE refreshResolved(r.catalog[1], data)
               /\ requests' = requests \ {r}
               /\ lastOp' = "refresh:ok"
  /\ UNCHANGED <<formVars, listenerVars, observerVars, sheetVars, app, serverUrl, token, status, socketConnected,
                 localStorage, issued, effectVars>>

\* What the catch and finally blocks of refresh set.
refreshCatch(failure) ==
  /\ error' = <<consoleFailureMessage(failure)>>
  /\ loading' = FALSE
  /\ UNCHANGED <<commands, history>>

\* One of the two invokes failed.
refreshRejected(r, failure) ==
  /\ isMounted
  /\ r \in requests /\ r.kind = "refresh"
  /\ refreshCatch(failure)
  /\ requests' = requests \ {r}
  /\ lastOp' = (IF r.catalog = <<>> /\ r.log = <<>>
                  THEN "refresh:catch" ELSE "refresh:catch-after-answer")
  /\ UNCHANGED <<formVars, listenerVars, observerVars, sheetVars, app, serverUrl, token, status, socketConnected,
                 localStorage, issued, effectVars>>

\* next.splice(existingIndex, 1, payload) on a copy of prev
spliceAt(prev, id, payload) ==
  [i \in 1..Len(prev) |-> IF prev[i].id = id /\ \A j \in 1..(i - 1) : prev[j].id # id
                            THEN payload ELSE prev[i]]

\* The listener of 'command-center://event': the state updaters it queues.
consoleEventResult(state, event) ==
  IF event.type \in CommandUpsertTypes
    THEN [state EXCEPT !.commands =
            IF event.payload.id \in Ids(@) THEN spliceAt(@, event.payload.id, event.payload)
            ELSE <<event.payload>> \o @]
  ELSE IF event.type = "command_deleted"
    THEN [state EXCEPT !.commands = filterOutId(@, event.payload.id)]
  ELSE IF event.type \in ExecutionTypes
    THEN [state EXCEPT !.history =
            IF event.payload.id \in Ids(@) THEN spliceAt(@, event.payload.id, event.payload)
            ELSE sortByStartedAtDescending(<<event.payload>> \o @)]
  ELSE state

\* A listener that does not look at isMounted.
listenerResultUnguarded(mounted, state, event) == consoleEventResult(state, event)

\* The listener's first lines: if (!isMounted) return.
listenerResult(mounted, state, event) ==
  IF ~mounted THEN state ELSE consoleEventResult(state, event)

\* The backend emits an event while the listener is registered: from the
\* call of listen() until unlisten() is called (or listen() fails).
consoleListener(event) ==
  /\ app = "console"
  /\ unlistenPromise \in {"pending", "resolved"}
  /\ commands' = listenerResult(isMounted, Collections, event).commands
  /\ history' = listenerResult(isMounted, Collections, event).history
  /\ lastOp' = (IF isMounted THEN "listener" ELSE "listener:unmounted")
  /\ UNCHANGED <<formVars, listenerVars, observerVars, sheetVars, app, sessionVars, requestVars, effectVars>>

\* listen() resolves with the unlisten function.  If the cleanup has run
\* already, its then-callback calls unlisten() at once.
listenResolved ==
  /\ app = "console"
  /\ unlistenPromise = "pending"
  /\ unlistenPromise' = (IF isMounted THEN "resolved" ELSE "unlistened")
  /\ lastOp' = (IF isMounted THEN "listen:resolved" ELSE "listen:resolved-unlisten")
  /\ UNCHANGED <<formVars, isMounted, observerVars, sheetVars, app, collVars, sessionVars, requestVars,
                 effectVars>>

\* listen() fails: nothing was registered, and the then-callback of the
\* cleanup never runs.
listenRejected ==
  /\ app = "console"
  /\ unlistenPromise = "pending"
  /\ unlistenPromise' = "rejected"
  /\ lastOp' = "listen:rejected"
  /\ UNCHANGED <<formVars, isMounted, observerVars, sheetVars, app, collVars, sessionVars, requestVars,
                 effectVars>>

\* The cleanup of the listener effect, run when the component unmounts:
\* isMounted = false, and unlisten() once the promise has resolved.  What
\* the component held is kept here as it was at that moment; state setters
\* of an unmounted component do nothing.
listenerCleanup ==
  /\ app = "console"
  /\ isMounted
  /\ isMounted' = FALSE
  /\ unlistenPromise' = (IF unlistenPromise = "resolved" THEN "unlistened"
                         ELSE unlistenPromise)
  /\ lastOp' = "listener:cleanup"
  /\ UNCHANGED <<formVars, observerVars, sheetVars, app, collVars, sessionVars, requestVars, effectVars>>

\* The console after its first render and its mount effects: the first
\* refresh is on its way.
InitConsole ==
  /\ app = "console"
  /\ commands = <<>>
  /\ history = <<>>
  /\ loading = TRUE
  /\ error = <<>>
  /\ requests = {[n |-> 1, kind |-> "refresh", url |-> <<>>, token |-> "",
                  catalog |-> <<>>, log |-> <<>>]}
  /\ issued = 1
  /\ serverUrl = <<>>
  /\ token = ""
  /\ status = "disconnected"
  /\ socketConnected = FALSE
  /\ localStorage = NoStorage
  /\ hydrateDeps = <<>>
  /\ liveDeps = <<>>
  /\ socketRef = 0
  /\ sockets = <<>>
  /\ selectedCommand = <<>>
  /\ parameterInput = <<>>
  /\ sheetError = <<>>
  /\ executing = FALSE
  /\ lastOp = "init"
  /\ received = {}
  /\ stable = TRUE
  /\ delivered = <<>>
  /\ isMounted = TRUE
  /\ unlistenPromise = "pending"
  /\ formMode = "create"
  /\ executionMessage = <<>>
  /\ busyCommandId = <<>>

NextConsole ==
  \/ refresh
  \/ \E r \in requests, data \in CatalogResponses : refreshAnswered(r, "catalog", data)
  \/ \E r \in requests, data \in HistoryResponses : refreshAnswered(r, "log", data)
  \/ \E r \in requests, failure \in ConsoleFailures : refreshRejected(r, failure)
  \/ \E event \in PushedEvents : consoleListener(event)

(***************************************************************************)
(* Spec: the whole client, or the server console.                          *)
(***************************************************************************)
\* What a browser may hold from earlier runs: nothing, a session, or only
\* the last address.
StoredStates ==
  { NoStorage,
    [NoStorage EXCEPT ![SERVER_STORAGE_KEY] = <<HttpsH>>],
    [NoStorage EXCEPT ![SERVER_STORAGE_KEY] = <<HttpsH>>,
                      ![SESSION_STORAGE_KEY] = <<SessionRecord(HttpsH, "t1")>>] }

\* initialSession that never reads the session record.
initialSessionIgnoringRecord(stored) ==
  [serverUrl |-> IF stored[SERVER_STORAGE_KEY] # <<>>
                   THEN stored[SERVER_STORAGE_KEY][1] ELSE <<>>,
   token |-> ""]

\* initialSession: the session record if stored, else the stored address.
initialSession(stored) ==
  IF stored[SESSION_STORAGE_KEY] # <<>>
    THEN [serverUrl |-> stored[SESSION_STORAGE_KEY][1].serverUrl,
          token |-> stored[SESSION_STORAGE_KEY][1].token]
  ELSE [serverUrl |-> IF stored[SERVER_STORAGE_KEY] # <<>>
                        THEN stored[SERVER_STORAGE_KEY][1] ELSE <<>>,
        token |-> ""]

InitClient ==
  /\ app = "client"
  /\ localStorage \in StoredStates
  /\ serverUrl = initialSession(localStorage).serverUrl
  /\ token = initialSession(localStorage).token
  /\ status = (IF initialSession(localStorage).token # "" THEN "connecting" ELSE "disconnected")
  /\ socketConnected = FALSE
  /\ loading = FALSE
  /\ error = <<>>
  /\ commands = <<>>
  /\ history = <<>>
  /\ requests = {}
  /\ issued = 0
  /\ hydrateDeps = <<>>
  /\ liveDeps = <<>>
  /\ socketRef = 0
  /\ sockets = <<>>
  /\ selectedCommand = <<>>
  /\ parameterInput = <<>>
  /\ sheetError = <<>>
  /\ executing = FALSE
  /\ lastOp = "init"
  /\ received = {}
  /\ stable = TRUE
  /\ delivered = <<>>
  /\ isMounted = TRUE
  /\ unlistenPromise = "none"
  /\ formMode = "create"
  /\ executionMessage = <<>>
  /\ busyCommandId = <<>>

Init == InitClient \/ InitConsole

NextClient ==
  \/ \E url \in UrlInputs : setServerUrl(url)
  \/ \E url \in UrlInputs : login(url)
  \/ \E r \in requests, tok \in Tokens : loginResolved(r, tok)
  \/ \E r \in requests, failure \in Failures : loginRejected(r, failure)
  \/ logout
  \/ useHydrateSession
  \/ \E r \in requests, data \in CatalogResponses : fetchCatalogArrived(r, data)
  \/ \E r \in requests, data \in HistoryResponses : fetchHistoryArrived(r, data)
  \/ \E r \in requests, failure \in Failures : fetchRejected(r, failure)
  \/ useLiveEvents
  \/ \E i \in 1..MaxSockets : socketOpen(i)
  \/ \E i \in 1..MaxSockets : socketError(i)
  \/ \E i \in 1..MaxSockets : socketClose(i)
  \/ \E i \in 1..MaxSockets, event \in PushedEvents : socketMessage(i, event)

Next == NextClient \/ NextConsole

Spec == Init /\ [][Next]_vars

(***************************************************************************)
(* The command detail sheet of the client: Dashboard's selectedCommand and *)
(* executing, CommandDetailSheet's parameterInput and error, and the       *)
(* store's execute.  Strings are sequences of characters here, because     *)
(* the sheet splits, trims and joins them.                                 *)
(***************************************************************************)
NL == "\n"

\* parts.join(sep)
join(parts, sep) ==
  LET joined[i \in 0..Len(parts)] ==
        IF i = 0 THEN <<>>
        ELSE IF i = 1 THEN parts[1]
        ELSE joined[i - 1] \o <<sep>> \o parts[i]
  IN joined[Len(parts)]

\* str.split(sep): the pieces between the separators, one piece for a
\* string without separator, the empty string included.
split(str, sep) ==
  LET pieces[i \in 0..Len(str)] ==
        IF i = 0 THEN << <<>> >>
        ELSE IF str[i] = sep THEN Append(pieces[i - 1], <<>>)
        ELSE [pieces[i - 1] EXCEPT ![Len(pieces[i - 1])] = @ \o <<str[i]>>]
  IN pieces[Len(str)]

\* parameterInput.split('\n').map((value) => value.trim()).filter(Boolean)
parseParameters(input) ==
  LET lines == split(input, NL)
      trimmed == [i \in 1..Len(lines) |-> trim(lines[i])]
  IN SelectSeq(trimmed, LAMBDA value : value # <<>>)

\* The guard of CommandDetailSheet.handleExecute.
rejectsCustomParameters(command, parameters) ==
  /\ ~command.allowArguments
  /\ Len(parameters) # 0
  /\ join(parameters, ",") # join(command.args, ",")

\* The arguments a stored command carries: plain ones, one with a comma,
\* one with a leading blank, and the empty string.
ArgStrings == { <<"a">>, <<"b">>, <<"a", ",", "b">>, <<" ", "a">>, <<>> }
MaxArgs == 2
ArgLists == UNION {[1..n -> ArgStrings] : n \in 0..MaxArgs}

SheetCommands ==
  [id : {1}, name : {"a"}, allowArguments : BOOLEAN, args : ArgLists]

\* What the user types into the parameter field when it is enabled.
ParameterTexts ==
  { <<>>, <<"a">>, <<"a", NL, "b">>, <<"a", ",", "b">>, <<" ", "a", " ">> }

\* CommandCard onOpen: setSelectedCommand(command); the sheet mounts with
\* useState(command.args.join('\n')) and no error.  The open sheet covers
\* the cards.
openSheet(command) ==
  /\ DashboardShown
  /\ selectedCommand = <<>>
  /\ \E i \in 1..Len(commands) : commands[i] = command
  /\ selectedCommand' = <<command>>
  /\ parameterInput' = join(command.args, NL)
  /\ sheetError' = <<>>
  /\ lastOp' = "openSheet"
  /\ UNCHANGED <<formVars, listenerVars, observerVars, executing, app, collVars, sessionVars, requestVars,
                 effectVars>>

\* onClose: setSelectedCommand(null); the sheet unmounts.
closeSheet ==
  /\ DashboardShown
  /\ selectedCommand # <<>>
  /\ selectedCommand' = <<>>
  /\ parameterInput' = <<>>
  /\ sheetError' = <<>>
  /\ lastOp' = "closeSheet"
  /\ UNCHANGED <<formVars, listenerVars, observerVars, executing, app, collVars, sessionVars, requestVars,
                 effectVars>>

\* The textarea's onChange; it is disabled={!command.allowArguments}.
setParameterInput(text) ==
  /\ DashboardShown
  /\ selectedCommand # <<>>
  /\ selectedCommand[1].allowArguments
  /\ parameterInput' = text
  /\ lastOp' = "setParameterInput"
  /\ UNCHANGED <<formVars, listenerVars, observerVars, selectedCommand, sheetError, executing, app, collVars,
                 sessionVars, requestVars, effectVars>>

\* CommandDetailSheet.handleExecute with Dashboard.handleExecute and the
\* store's execute, up to the await of the post.  The button is
\* disabled={executing}.
handleExecute ==
  LET command == selectedCommand[1]
      parameters == parseParameters(parameterInput)
  IN /\ DashboardShown
     /\ selectedCommand # <<>>
     /\ ~executing
     /\ IF rejectsCustomParameters(command, parameters)
          THEN /\ sheetError' =
                    <<"This command does not accept custom parameters. Please reset to defaults.">>
               /\ lastOp' = "handleExecute:rejected"
               /\ UNCHANGED <<executing, error, requestVars>>
        ELSE IF serverUrl = <<>> \/ token = ""
          THEN /\ sheetError' = <<"Not authenticated">>
               /\ error' = <<>>
               /\ lastOp' = "handleExecute:not-authenticated"
               /\ UNCHANGED <<executing, requestVars>>
        ELSE /\ issued < MaxRequests
             /\ sheetError' = <<>>
             /\ error' = <<>>
             /\ executing' = TRUE
             /\ issued' = issued + 1
             /\ requests' = requests \cup
                  {[n |-> issued + 1, kind |-> "execute", url |-> serverUrl,
                    token |-> token, commandId |-> command.id,
                    parameters |-> parameters, awaited |-> TRUE]}
             /\ lastOp' = "handleExecute:post"
     /\ UNCHANGED <<formVars, listenerVars, observerVars, selectedCommand, parameterInput, app, collVars, serverUrl,
                    token, status, socketConnected, loading, localStorage, effectVars>>

\* The logs the remote authority answers an execute call with.
ExecuteResponses == [id : LogIds, status : {"pending"}, startedAt : {MaxStartedAt}]

\* An execute that puts the answered log into history itself.
executeResultPrepending(state, response) ==
  [state EXCEPT !.history = <<response>> \o @]

\* What execute makes of the collections on success: it returns
\* response.data.id and sets nothing.
executeResult(state, response) == state

\* execute after the await: the response arrived.  The store is left
\* alone; Dashboard, if it still awaits the call, drops the returned id and
\* closes the sheet.
executeResolved(r, response) ==
  /\ Settled
  /\ r \in requests /\ r.kind = "execute"
  /\ requests' = requests \ {r}
  /\ commands' = executeResult(Collections, response).commands
  /\ history' = executeResult(Collections, response).history
  /\ IF r.awaited
       THEN /\ selectedCommand' = <<>>
            /\ parameterInput' = <<>>
            /\ sheetError' = <<>>
            /\ executing' = FALSE
       ELSE UNCHANGED sheetVars
  /\ lastOp' = "execute:ok"
  /\ UNCHANGED <<formVars, listenerVars, observerVars, app, sessionVars, issued, effectVars>>

\* execute after the await: the call failed.  The store records the
\* message and rethrows; the sheet, if still open, shows err.message.
executeRejected(r, failure) ==
  /\ Settled
  /\ r \in requests /\ r.kind = "execute"
  /\ requests' = requests \ {r}
  /\ error' = <<failureMessage(failure, "Command failed")>>
  /\ IF r.awaited
       THEN /\ executing' = FALSE
            /\ sheetError' = IF selectedCommand # <<>> THEN <<failure.message>> ELSE <<>>
            /\ UNCHANGED <<selectedCommand, parameterInput>>
       ELSE UNCHANGED sheetVars
  /\ lastOp' = "execute:catch"
  /\ UNCHANGED <<formVars, listenerVars, observerVars, app, collVars, serverUrl, token, status, socketConnected,
                 loading, localStorage, issued, effectVars>>

\* A signed-in client whose catalog holds one command, its effects run and
\* its socket open.
InitSheet ==
  /\ app = "client"
  /\ \E command \in SheetCommands : commands = <<command>>
  /\ history = <<>>
  /\ serverUrl = HttpsH
  /\ token = "t1"
  /\ status = "connected"
  /\ socketConnected = TRUE
  /\ loading = FALSE
  /\ error = <<>>
  /\ localStorage = [NoStorage EXCEPT ![SERVER_STORAGE_KEY] = <<HttpsH>>,
                                      ![SESSION_STORAGE_KEY] = <<SessionRecord(HttpsH, "t1")>>]
  /\ requests = {}
  /\ issued = 0
  /\ hydrateDeps = <<"t1">>
  /\ liveDeps = <<HttpsH, "t1", "connected">>
  /\ socketRef = 1
  /\ sockets = <<"open">>
  /\ selectedCommand = <<>>
  /\ parameterInput = <<>>
  /\ sheetError = <<>>
  /\ executing = FALSE
  /\ lastOp = "init"
  /\ received = {}
  /\ stable = TRUE
  /\ delivered = <<>>
  /\ isMounted = TRUE
  /\ unlistenPromise = "none"
  /\ formMode = "create"
  /\ executionMessage = <<>>
  /\ busyCommandId = <<>>

NextSheet ==
  \/ \E command \in SheetCommands : openSheet(command)
  \/ closeSheet
  \/ \E text \in ParameterTexts : setParameterInput(text)
  \/ handleExecute
  \/ \E r \in requests, response \in ExecuteResponses : executeResolved(r, response)
  \/ \E r \in requests, failure \in Failures : executeRejected(r, failure)

SpecSheet == InitSheet /\ [][NextSheet]_vars

(***************************************************************************)
(* SpecEvents: the client store fed events only, from empty collections.   *)
(***************************************************************************)
InitEvents ==
  /\ app = "client"
  /\ commands = <<>>
  /\ history = <<>>
  /\ serverUrl = <<>>
  /\ token = ""
  /\ status = "disconnected"
  /\ socketConnected = FALSE
  /\ loading = FALSE
  /\ error = <<>>
  /\ localStorage = NoStorage
  /\ requests = {}
  /\ issued = 0
  /\ hydrateDeps = <<>>
  /\ liveDeps = <<>>
  /\ socketRef = 0
  /\ sockets = <<>>
  /\ selectedCommand = <<>>
  /\ parameterInput = <<>>
  /\ sheetError = <<>>
  /\ executing = FALSE
  /\ lastOp = "init"
  /\ received = {}
  /\ stable = TRUE
  /\ delivered = <<>>
  /\ isMounted = TRUE
  /\ unlistenPromise = "none"
  /\ formMode = "create"
  /\ executionMessage = <<>>
  /\ busyCommandId = <<>>

\* The store is handed an event.
deliver(event) == integrateEvent(event) /\ UNCHANGED <<formVars, listenerVars, observerVars>>

NextEvents == \E event \in ServerEvent : deliver(event)

SpecEvents == InitEvents /\ [][NextEvents]_vars

(***************************************************************************)
(* C1  After any sequence of integrateEvent calls from empty collections,  *)
(* neither commands nor history holds two entries with the same id.        *)
(***************************************************************************)
UniqueIds(arr) == \A i, j \in 1..Len(arr) : arr[i].id = arr[j].id => i = j

C1_UniqueIds == UniqueIds(commands) /\ UniqueIds(history)

\* An upsert for an id already held has just been integrated, with both
\* collections holding every id.
C1_Witness ==
  /\ lastOp \in {"command:replace", "execution:replace"}
  /\ Len(commands) = MaxCmdIds
  /\ Len(history) = MaxLogIds

(***************************************************************************)
(* C2  In every reachable state, integrating any event twice in a row      *)
(* gives the same commands and history, in the same order, as integrating  *)
(* it once.                                                                *)
(***************************************************************************)
C2_Idempotent ==
  \A event \in ServerEvent :
    LET once == integrateEventResult(Collections, event)
    IN integrateEventResult(once, event) = once

\* Two commands whose names are equal ignoring case and two logs with the
\* same instant are held: an upsert of either meets a tie in its sort.
C2_Witness ==
  /\ lastOp \in {"command:replace", "execution:replace"}
  /\ \E i, j \in 1..Len(commands) :
       i # j /\ commandSortKey(commands[i]) = commandSortKey(commands[j])
  /\ \E i, j \in 1..Len(history) :
       i # j /\ historySortKey(history[i]) = historySortKey(history[j])

(***************************************************************************)
(* SpecWindow: execution events integrated into a history that already     *)
(* holds HistoryLimit - 1 or HistoryLimit logs.  The observers record what *)
(* was integrated, whether still held or not.                              *)
(***************************************************************************)
\* The history after n logs with further ids were integrated, all started
\* at the instant of timestamp string 2.
Backlog(n) == [i \in 1..n |-> [id |-> MaxLogIds + i, status |-> "success", startedAt |-> 2]]

ExecutionEvent == {event \in ServerEvent : event.type \in ExecutionTypes}

observe(event) ==
  /\ received' = {r \in received : r.id # event.payload.id} \cup {event.payload}
  /\ stable' = (stable /\ \A r \in received :
                  r.id = event.payload.id =>
                    dayjsValueOf(r.startedAt) = dayjsValueOf(event.payload.startedAt))
  /\ UNCHANGED delivered

InitWindow ==
  /\ app = "client"
  /\ commands = <<>>
  /\ \E n \in {HistoryLimit - 1, HistoryLimit} : history = Backlog(n)
  /\ serverUrl = HttpsH
  /\ token = "t1"
  /\ status = "connected"
  /\ socketConnected = FALSE
  /\ loading = FALSE
  /\ error = <<>>
  /\ localStorage = NoStorage
  /\ requests = {}
  /\ issued = 0
  /\ hydrateDeps = <<>>
  /\ liveDeps = <<>>
  /\ socketRef = 0
  /\ sockets = <<>>
  /\ selectedCommand = <<>>
  /\ parameterInput = <<>>
  /\ sheetError = <<>>
  /\ executing = FALSE
  /\ lastOp = "init"
  /\ received = {history[i] : i \in 1..Len(history)}
  /\ stable = TRUE
  /\ delivered = <<>>
  /\ isMounted = TRUE
  /\ unlistenPromise = "none"
  /\ formMode = "create"
  /\ executionMessage = <<>>
  /\ busyCommandId = <<>>

\* The store is handed an event, and the observers note it.
deliverObserved(event) == integrateEvent(event) /\ observe(event)

NextWindow == \E event \in ExecutionEvent : deliverObserved(event)

SpecWindow == InitWindow /\ [][NextWindow]_vars

(***************************************************************************)
(* C3  After any sequence of execution events the history holds at most    *)
(* 100 entries.                                                            *)
(***************************************************************************)
C3_BoundedHistory == Len(history) <= HistoryLimit

\* More than HistoryLimit ids were integrated, the last of them a new one.
C3_Witness ==
  /\ lastOp = "execution:insert"
  /\ Cardinality(received) > HistoryLimit
  /\ Len(history) = HistoryLimit

(***************************************************************************)
(* C4  (as claimed) The history holds exactly the 100 logs with the        *)
(* greatest startedAt among the latest payloads of all ids integrated so   *)
(* far (all of them when fewer than 100), also when an id changes its      *)
(* startedAt and when a log was evicted earlier.                           *)
(***************************************************************************)
Held == {history[i] : i \in 1..Len(history)}

HoldsMostRecent ==
  /\ Held \subseteq received
  /\ Len(history) = (IF Cardinality(received) < HistoryLimit
                       THEN Cardinality(received) ELSE HistoryLimit)
  /\ \A h \in Held : \A o \in received \ Held :
       dayjsValueOf(h.startedAt) >= dayjsValueOf(o.startedAt)

C4_Claimed_MostRecentAlways == HoldsMostRecent

(***************************************************************************)
(* C4  (amended) As long as every id has been integrated with one instant  *)
(* of startedAt only, the history holds exactly the 100 logs with the      *)
(* greatest startedAt among the latest payloads of all ids integrated so   *)
(* far (all of them when fewer than 100), also after evictions.            *)
(***************************************************************************)
C4_MostRecentWhileStable == stable => HoldsMostRecent

\* A log was evicted and every id kept its instant.
C4_Witness ==
  /\ stable
  /\ Cardinality(received) > HistoryLimit
  /\ Len(history) = HistoryLimit
  /\ \E h \in Held : h.id \in LogIds

(***************************************************************************)
(* C5  In every reachable state of the client store, commands is sorted    *)
(* ascending by lower-cased name and history descending by startedAt.      *)
(***************************************************************************)
SortedBy(keys) == \A i \in 1..(Len(keys) - 1) : keys[i] <= keys[i + 1]

C5_Sorted ==
  app = "client" => /\ SortedBy(byName(commands))
                    /\ SortedBy(byStartedAtDescending(history))

\* A snapshot that the remote authority listed in another order was
\* merged, and an event was integrated into it afterwards.
C5_Witness ==
  /\ app = "client"
  /\ lastOp \in {"command:replace", "execution:replace"}
  /\ Len(commands) = 2 /\ Len(history) = 2
  /\ issued >= 1

(***************************************************************************)
(* C7  Right after logout, from any state, token is empty, status is       *)
(* 'disconnected', socketConnected is false, commands and history are      *)
(* empty and no session record is persisted.                               *)
(***************************************************************************)
C7_LogoutClears ==
  lastOp = "logout" =>
    /\ token = ""
    /\ status = "disconnected"
    /\ socketConnected = FALSE
    /\ commands = <<>>
    /\ history = <<>>
    /\ localStorage[SESSION_STORAGE_KEY] = <<>>

\* logout ran with the live socket open and a snapshot pull in flight.
C7_Witness ==
  /\ lastOp = "logout"
  /\ socketRef # 0 /\ sockets[socketRef] = "open"
  /\ \E r \in requests : r.kind = "fetchData"

(***************************************************************************)
(* C8  If logout is called while a fetchData request is in flight, the     *)
(* response arriving afterwards does not change the store: commands and    *)
(* history stay empty and status stays 'disconnected'.                     *)
(***************************************************************************)
FetchAnswerLabels ==
  {"fetchData:wait", "fetchData:ok", "fetchData:catch", "fetchData:catch-after-answer"}

C8_LateResponseDiscarded ==
  [][(token = "" /\ lastOp' \in FetchAnswerLabels)
       => UNCHANGED <<commands, history, status>>]_vars

(***************************************************************************)
(* C9  A snapshot load (fetchData of the client, refresh of the console)   *)
(* replaces commands and history only in the step where the second of its  *)
(* two pulls has succeeded; a load that fails leaves both as they were and *)
(* records a single error message.                                         *)
(***************************************************************************)
LoadFailedLabels ==
  {"fetchData:catch", "fetchData:catch-after-answer",
   "refresh:catch", "refresh:catch-after-answer"}
LoadPendingLabels == {"fetchData:start", "fetchData:wait", "refresh:start", "refresh:wait"}

C9_FailedLoadKeepsCollections ==
  [][/\ lastOp' \in LoadFailedLabels \cup LoadPendingLabels
          => UNCHANGED <<commands, history>>
     /\ lastOp' \in LoadFailedLabels => Len(error') = 1]_vars

\* A load failed after one of its pulls had succeeded, with commands held.
C9_Witness ==
  /\ lastOp \in {"fetchData:catch-after-answer", "refresh:catch-after-answer"}
  /\ commands # <<>>
  /\ Len(error) = 1


(***************************************************************************)
(* C6.  Executing a command that takes no custom arguments.                *)
(***************************************************************************)
\* The command of the open sheet and the parameters its field parses to.
sheetCommand == selectedCommand[1]
sheetParameters == parseParameters(parameterInput)
FixedCommandOpen == selectedCommand # <<>> /\ ~sheetCommand.allowArguments
DiffersFromArgs == sheetParameters # <<>> /\ sheetParameters # sheetCommand.args

\* C6: when the user triggers execution of a command with allowArguments
\* false, the request is rejected locally, nothing being sent, exactly when
\* the parameter sequence is non-empty and differs as a sequence from the
\* command's args; executing with the unchanged default args is never
\* rejected.
C6_Claimed_RejectedIffDiffers ==
  FixedCommandOpen =>
    /\ lastOp = "handleExecute:rejected" => DiffersFromArgs
    /\ lastOp = "handleExecute:post" => ~DiffersFromArgs
    /\ lastOp = "handleExecute:rejected" => parameterInput # join(sheetCommand.args, NL)

(***************************************************************************)
(* C10.  The live socket of a signed-in client.                            *)
(***************************************************************************)
\* What happens without the user: React runs the effects that are due, and
\* every call to the remote authority is answered or fails (the calls carry
\* a timeout).
effects == useHydrateSession \/ useLiveEvents
answers ==
  \E r \in requests :
    \/ \E tok \in Tokens : loginResolved(r, tok)
    \/ \E failure \in Failures : loginRejected(r, failure)
    \/ \E data \in CatalogResponses : fetchCatalogArrived(r, data)
    \/ \E data \in HistoryResponses : fetchHistoryArrived(r, data)
    \/ \E failure \in Failures : fetchRejected(r, failure)

SpecLive == InitClient /\ [][NextClient]_vars /\ WF_vars(effects) /\ WF_vars(answers)

\* The socket the effect holds has closed while the session is signed in.
SocketLost ==
  /\ socketRef # 0
  /\ sockets[socketRef] = "closed"
  /\ token # ""
  /\ status # "disconnected"

SessionEnded == token = "" \/ status = "disconnected"

\* C10: whenever the live socket closes or errors while the session is still
\* authenticated (token non-empty, status not 'disconnected'), a new
\* connection attempt is eventually made, unless the session ends first.
C10_Claimed_Reconnects ==
  \A n \in 1..(MaxSockets - 1) :
    (SocketLost /\ Len(sockets) = n) ~> (Len(sockets) > n \/ SessionEnded)

(***************************************************************************)
(* C11.  One live socket at a time.                                        *)
(***************************************************************************)
\* The sockets that can still open or deliver a message.
LiveSockets == {i \in 1..Len(sockets) : sockets[i] \in {"connecting", "open"}}

\* C11: at every moment at most one WebSocket created by useLiveEvents can
\* deliver messages to integrateEvent, and it is the one the effect holds:
\* a re-run of the effect closes the previous socket before it creates the
\* next.
C11_OneLiveSocket ==
  app = "client" => /\ Cardinality(LiveSockets) <= 1
                    /\ LiveSockets \subseteq {socketRef}

\* The effect re-ran after the status moved from connecting to connected:
\* the second socket is open and the first was closed.
C11_Witness ==
  /\ Len(sockets) = 2
  /\ sockets[2] = "open"
  /\ sockets[1] \in {"closing", "closed"}
  /\ liveDeps = <<serverUrl, token, "connected">>

(***************************************************************************)
(* C12.  An unauthorized answer to a call made with the session token.     *)
(***************************************************************************)
\* The store as logout leaves it.
TornDown ==
  /\ token = ""
  /\ status = "disconnected"
  /\ commands = <<>>
  /\ history = <<>>
  /\ localStorage[SESSION_STORAGE_KEY] = <<>>

\* The call that just failed was refused as unauthorized: the store shows
\* the message of the 401 body.
UnauthorizedJustHandled ==
  /\ app = "client"
  /\ lastOp \in {"fetchData:catch", "fetchData:catch-after-answer", "execute:catch"}
  /\ error = <<"Invalid credentials">>

\* C12: whenever a remote call made with the session token (fetchData or
\* execute) fails with an unauthorized response, the session is torn down
\* as by logout: token empty, status 'disconnected', commands and history
\* empty, persisted session record removed.
C12_Claimed_AuthFailureTearsDown == UnauthorizedJustHandled => TornDown

(***************************************************************************)
(* C13.  Socket messages that are not well-formed events.  The listener    *)
(* parses the text and casts the result to ServerEvent without looking at  *)
(* it.                                                                     *)
(***************************************************************************)
\* The id read from a payload that has none: undefined.  It compares like
\* any other value in c.id !== event.payload.id.
undefinedId == 0

\* What JSON.parse makes of a message: <<>> when it throws, <<event>>
\* otherwise.  Beside the well-formed events: an event of a type the store
\* does not know, and execution events whose payload has no id.
UnknownTypeEvent == [type |-> "server_restarted", payload |-> [id |-> 1]]
IdlessEvents ==
  {[type |-> executionEventType(st),
    payload |-> [id |-> undefinedId, status |-> st, startedAt |-> 1]] :
     st \in {"pending", "success"}}
ParsedMessages ==
  {<<>>} \cup {<<event>> : event \in PushedEvents \cup {UnknownTypeEvent} \cup IdlessEvents}

messageBranch(parsed) ==
  IF parsed = <<>> THEN "message:unparsable"
  ELSE IF parsed[1].type \notin CommandUpsertTypes \cup {"command_deleted"} \cup ExecutionTypes
    THEN "message:unknown-type"
  ELSE IF parsed[1].payload.id = undefinedId THEN "message:no-id"
  ELSE "message:event"

\* socket.addEventListener('message', ...): try { integrateEvent(JSON.parse(
\* event.data)) } catch { console.warn(...) }
socketRawMessage(i, parsed) ==
  /\ Settled
  /\ app = "client"
  /\ i \in 1..Len(sockets) /\ sockets[i] = "open"
  /\ IF parsed = <<>>
       THEN UNCHANGED collVars
       ELSE /\ commands' = integrateEventResult(Collections, parsed[1]).commands
            /\ history' = integrateEventResult(Collections, parsed[1]).history
  /\ lastOp' = messageBranch(parsed)
  /\ UNCHANGED <<formVars, listenerVars, observerVars, sheetVars, app, sessionVars, requestVars, effectVars>>

\* A signed-in client with its socket open and nothing loaded yet.
InitMessages ==
  /\ app = "client"
  /\ commands = <<>>
  /\ history = <<>>
  /\ serverUrl = HttpsH
  /\ token = "t1"
  /\ status = "connected"
  /\ socketConnected = TRUE
  /\ loading = FALSE
  /\ error = <<>>
  /\ localStorage = [NoStorage EXCEPT ![SERVER_STORAGE_KEY] = <<HttpsH>>,
                                      ![SESSION_STORAGE_KEY] = <<SessionRecord(HttpsH, "t1")>>]
  /\ requests = {}
  /\ issued = 0
  /\ hydrateDeps = <<"t1">>
  /\ liveDeps = <<HttpsH, "t1", "connected">>
  /\ socketRef = 1
  /\ sockets = <<"open">>
  /\ selectedCommand = <<>>
  /\ parameterInput = <<>>
  /\ sheetError = <<>>
  /\ executing = FALSE
  /\ lastOp = "init"
  /\ received = {}
  /\ stable = TRUE
  /\ delivered = <<>>
  /\ isMounted = TRUE
  /\ unlistenPromise = "none"
  /\ formMode = "create"
  /\ executionMessage = <<>>
  /\ busyCommandId = <<>>

NextMessages ==
  \/ \E i \in 1..MaxSockets, parsed \in ParsedMessages : socketRawMessage(i, parsed)
  \/ \E i \in 1..MaxSockets : socketError(i)
  \/ \E i \in 1..MaxSockets : socketClose(i)

SpecMessages == InitMessages /\ [][NextMessages]_vars

MalformedLabels == {"message:unparsable", "message:unknown-type", "message:no-id"}

\* C13: a socket message that cannot be parsed, that carries an unknown
\* type, or whose payload lacks the fields the merge needs leaves commands,
\* history, token, status and socketConnected unchanged and does not close
\* the socket.
C13_Claimed_MalformedDropped ==
  [][lastOp' \in MalformedLabels =>
       UNCHANGED <<commands, history, token, status, socketConnected, sockets>>]_vars

(***************************************************************************)
(* C14.  A login that succeeds.                                            *)
(***************************************************************************)
\* The addresses a login can post to.
LoginUrls == {normalizeServerUrl(url) : url \in UrlInputs} \ {<<>>}

\* C14: when login(serverUrl, username, password) completes successfully,
\* the store's token is the token returned by the server, status is
\* 'connected', serverUrl is the normalized form of the login's serverUrl,
\* and the persisted session record holds exactly that serverUrl and token.
C14_Claimed_LoginEstablishesSession ==
  lastOp = "login:ok" =>
    /\ token \in Tokens
    /\ status = "connected"
    /\ serverUrl \in LoginUrls
    /\ localStorage[SESSION_STORAGE_KEY] = <<SessionRecord(serverUrl, token)>>

(***************************************************************************)
(* C15.  A login that fails.                                               *)
(***************************************************************************)
\* What the user is told: the message of the response body, the status
\* text of a response without one, the fixed text when no response came.
LoginFailureMessages == {"Invalid credentials", "Bad Gateway", "Unable to authenticate"}

PersistedToken ==
  IF localStorage[SESSION_STORAGE_KEY] = <<>> THEN ""
  ELSE localStorage[SESSION_STORAGE_KEY][1].token

\* C16: at process start, if a persisted session record with a non-empty
\* token exists the store starts with that token and status 'connecting'
\* (never 'connected') and the first thing that happens is the start of a
\* snapshot load; if no token is persisted the store starts 'disconnected';
\* and status becomes 'connected' only when login or fetchData succeeds.
C16_HydrationRevalidates ==
  [][/\ (app = "client" /\ lastOp = "init" /\ PersistedToken # "") =>
          /\ token = PersistedToken
          /\ status = "connecting"
          /\ lastOp' = "fetchData:start"
          /\ \E r \in requests' : r.kind = "fetchData" /\ r.token = PersistedToken
     /\ (app = "client" /\ lastOp = "init" /\ PersistedToken = "") =>
          status = "disconnected"
     /\ (app = "client" /\ status # "connected" /\ status' = "connected") =>
          lastOp' \in {"login:ok", "fetchData:ok"}]_vars

\* A persisted session was hydrated and its load succeeded, without any
\* login: the status is now connected.
C16_Witness ==
  /\ lastOp = "fetchData:ok"
  /\ status = "connected"
  /\ token = PersistedToken /\ token # ""
  /\ issued = 1

(***************************************************************************)
(* C17.  The status the history holds for a log.                           *)
(***************************************************************************)
TerminalStatus == {"success", "error"}

\* C17 as claimed: once the history entry for an id has status success or
\* error, no later integrated event changes that entry's status.
C17_Claimed_TerminalStatusKept ==
  [][\A i \in 1..Len(history), j \in 1..Len(history') :
       (history'[j].id = history[i].id /\ history[i].status \in TerminalStatus) =>
         history'[j].status = history[i].status]_vars

\* C17 as the store behaves: the status held for an id is the status of
\* the event integrated last for that id, whatever the entry held before;
\* it moves forward only as far as the events arrive in forward order.
C17_StatusFollowsLatestEvent ==
  [][\A r \in received' \ received : \A j \in 1..Len(history') :
       history'[j].id = r.id => history'[j].status = r.status]_vars

\* An event has just replaced the entry of a known id, which now holds a
\* status that is not terminal, while the history is full.
C17_Witness ==
  /\ lastOp = "execution:replace"
  /\ Len(history) = HistoryLimit
  /\ \E i \in 1..Len(history) :
       history[i].id \in LogIds /\ history[i].status \notin TerminalStatus

(***************************************************************************)
(* C18.  A command whose deletion the client never hears of.               *)
(***************************************************************************)
SocketLabels ==
  {"useLiveEvents:connect", "useLiveEvents:idle", "socket:open", "socket:error",
   "socket:close"}

\* C18: a command leaves the client's collection only by a command_deleted
\* event, by a successful fetchData whose response omits it, or by logout;
\* a socket opening, closing, failing or being re-created neither removes
\* it nor starts a snapshot load.
C18_MissedDeleteStays ==
  [][app = "client" =>
       /\ \A id \in Ids(commands) \ Ids(commands') :
            lastOp' \in {"command:delete", "fetchData:ok", "logout"}
       /\ lastOp' \in SocketLabels => UNCHANGED <<commands, requests>>]_vars

\* The first socket has closed and a second one was created while the
\* store holds commands, and no load is under way.
C18_Witness ==
  /\ app = "client"
  /\ lastOp = "socket:close"
  /\ Len(sockets) = 2
  /\ commands # <<>>
  /\ requests = {}

(***************************************************************************)
(* C19.  The entry the history holds for a log.                            *)
(***************************************************************************)
\* C19: after an execution event for log id x is integrated and x is within
\* the retained window, history contains exactly one entry for x and that
\* entry equals the most recently integrated payload for x.
C19_EntryIsLatestPayload ==
  /\ UniqueIds(history)
  /\ \A i \in 1..Len(history) : history[i] \in received

\* An event has just replaced the entry of a known id in a full history,
\* and the entry now says success.
C19_Witness ==
  /\ lastOp = "execution:replace"
  /\ Len(history) = HistoryLimit
  /\ \E i \in 1..Len(history) :
       history[i].id \in LogIds /\ history[i].status = "success"

(***************************************************************************)
(* C20.  setServerUrl and a restart.  Beside what the client does on its   *)
(* own, the store's setServerUrl is called in any state, as the store      *)
(* allows, and the process starts again from what localStorage holds.      *)
(***************************************************************************)
\* Addresses handed to setServerUrl: blank, bare hosts, with a scheme in
\* either case, with trailing slashes.
AddressInputs ==
  { <<" ">>, <<"h", "/">>, <<" ", "g">>,
    <<"h", "t", "t", "p", ":", "/", "/", "h">>,
    <<"H", "T", "T", "P", "S", ":", "/", "/", "g", "/", "/">> }

\* The store's setServerUrl, whoever calls it.
callSetServerUrl(url) ==
  /\ app = "client"
  /\ Settled
  /\ serverUrl' = normalizeServerUrl(url)
  /\ localStorage' = storageAfterSetServerUrl(normalizeServerUrl(url))
  /\ lastOp' = "setServerUrl"
  /\ UNCHANGED <<formVars, listenerVars, observerVars, sheetVars, app, collVars, token, status, socketConnected,
                 loading, error, requestVars, effectVars>>

\* The process starts again: the module is evaluated anew, the store is
\* created from initialSession and the hooks mount; localStorage is what
\* it was, and what was in flight is gone.
restart ==
  /\ app = "client"
  /\ serverUrl' = initialSession(localStorage).serverUrl
  /\ token' = initialSession(localStorage).token
  /\ status' = (IF initialSession(localStorage).token # "" THEN "connecting"
                ELSE "disconnected")
  /\ socketConnected' = FALSE
  /\ loading' = FALSE
  /\ error' = <<>>
  /\ commands' = <<>>
  /\ history' = <<>>
  /\ requests' = {}
  /\ issued' = 0
  /\ hydrateDeps' = <<>>
  /\ liveDeps' = <<>>
  /\ socketRef' = 0
  /\ sockets' = <<>>
  /\ selectedCommand' = <<>>
  /\ parameterInput' = <<>>
  /\ sheetError' = <<>>
  /\ executing' = FALSE
  /\ lastOp' = "restart"
  /\ UNCHANGED <<formVars, listenerVars, observerVars, app, localStorage>>

\* The session's side of the client (socket events and pushed events left
\* aside: they touch neither the address nor the storage).
NextAddress ==
  \/ \E url \in UrlInputs : login(url)
  \/ \E r \in requests, tok \in Tokens : loginResolved(r, tok)
  \/ \E r \in requests, failure \in Failures : loginRejected(r, failure)
  \/ logout
  \/ useHydrateSession
  \/ \E r \in requests, data \in CatalogResponses : fetchCatalogArrived(r, data)
  \/ \E r \in requests, data \in HistoryResponses : fetchHistoryArrived(r, data)
  \/ \E r \in requests, failure \in Failures : fetchRejected(r, failure)
  \/ useLiveEvents
  \/ \E url \in AddressInputs : callSetServerUrl(url)
  \/ restart

SpecAddress == InitClient /\ [][NextAddress]_vars

NormalizedAddresses == {normalizeServerUrl(url) : url \in AddressInputs}

\* C20: after setServerUrl(u), in any auth state, with or without a
\* persisted session record, re-hydrating the store from persisted storage
\* yields the serverUrl that setServerUrl set, the normalized form of u; a
\* restart right after it starts with that serverUrl; and setServerUrl
\* never changes token, status, commands or history.
C20_AddressSurvivesRestart ==
  [][/\ lastOp' = "setServerUrl" =>
          /\ serverUrl' \in NormalizedAddresses
          /\ initialSession(localStorage').serverUrl = serverUrl'
          /\ UNCHANGED <<token, status, commands, history>>
     /\ (lastOp = "setServerUrl" /\ lastOp' = "restart") => serverUrl' = serverUrl]_vars

\* Restarted with a persisted session whose address setServerUrl had
\* changed to one given with an upper-case scheme and trailing slashes.
C20_Witness ==
  /\ lastOp = "restart"
  /\ token # ""
  /\ serverUrl = <<"H", "T", "T", "P", "S", ":", "/", "/", "g">>
  /\ localStorage[SESSION_STORAGE_KEY] = <<SessionRecord(serverUrl, token)>>

(***************************************************************************)
(* C21, C30.  normalizeServerUrl on what can be typed into the address     *)
(* field of LoginView.                                                     *)
(***************************************************************************)
\* Address texts: optional leading blank, optional scheme in either case,
\* a host (none, plain, with a path, followed by a blank), and a tail of
\* slashes or blanks.
AddressLeads == { <<>>, <<" ">> }
AddressSchemes ==
  { <<>>,
    <<"h", "t", "t", "p", ":", "/", "/">>,
    <<"h", "t", "t", "p", "s", ":", "/", "/">>,
    <<"H", "T", "T", "P", "S", ":", "/", "/">> }
AddressHosts == { <<>>, <<"h">>, <<"g">>, <<"h", "/", "p">>, <<"h", " ">> }
AddressTails == { <<>>, <<"/">>, <<"/", "/">>, <<" ">>, <<"/", " ">> }
AddressTexts ==
  {lead \o scheme \o host \o tail :
     lead \in AddressLeads, scheme \in AddressSchemes, host \in AddressHosts,
     tail \in AddressTails}

\* The login view of a client: the address field is edited and left, and
\* the effects run.
NextNormalize ==
  \/ \E url \in AddressTexts : setServerUrl(url)
  \/ useHydrateSession
  \/ useLiveEvents

SpecNormalize == InitClient /\ [][NextNormalize]_vars

\* C21: normalizeServerUrl returns either the empty string or a string
\* that begins with http:// or https:// (in either case) and does not end
\* with '/'; so the serverUrl that setServerUrl stores is always empty or
\* scheme-qualified without a trailing slash.
C21_Claimed_SchemeQualified ==
  app = "client" =>
    \/ serverUrl = <<>>
    \/ /\ hasHttpScheme(serverUrl)
       /\ serverUrl[Len(serverUrl)] # "/"

\* C30: normalizeServerUrl is idempotent: normalising an address it has
\* already produced returns that address unchanged, also when the text
\* typed was only slashes or a bare scheme.
C30_Claimed_Idempotent ==
  app = "client" => normalizeServerUrl(serverUrl) = serverUrl

(***************************************************************************)
(* C22.  Release of the live transport: the client's WebSocket and the     *)
(* console's event listener.                                               *)
(***************************************************************************)
\* The client, and the console together with the life of its listener
\* effect: listen() settling and the component unmounting, in any order.
NextTeardown ==
  \/ Next
  \/ listenResolved
  \/ listenRejected
  \/ listenerCleanup

SpecTeardown == Init /\ [][NextTeardown]_vars

\* The labels of the steps in which a pushed event is handled.
PushedEventLabels ==
  {"command:replace", "command:insert", "command:delete", "command:delete-absent",
   "execution:replace", "execution:insert", "listener", "listener:unmounted"}

\* A pushed event has just changed commands or history.
PushedEventChange ==
  /\ lastOp' \in PushedEventLabels
  /\ <<commands, history>>' # <<commands, history>>

\* C22: on every teardown path, also in the middle of connecting, the
\* transport is released: every WebSocket of the client other than the one
\* the effect holds has had close() called on it, connecting or open; the
\* console's listener is unregistered once the component is unmounted and
\* listen() has resolved, in whichever order; and an event changes
\* commands or history only when it comes from the transport in use (the
\* open socket the effect holds, the listener of a mounted component).
C22_TransportReleased ==
  /\ [](app = "client" =>
          \A i \in 1..Len(sockets) : i # socketRef => sockets[i] \in {"closing", "closed"})
  /\ [](app = "console" /\ ~isMounted => unlistenPromise # "resolved")
  /\ [][PushedEventChange =>
          /\ app = "client" => socketRef # 0 /\ sockets[socketRef] = "open"
          /\ app = "console" => isMounted]_vars

\* The console was unmounted before listen() resolved, and the backend has
\* emitted an event since: the listener returned without touching state.
C22_Witness ==
  /\ app = "console"
  /\ ~isMounted
  /\ unlistenPromise = "pending"
  /\ lastOp = "listener:unmounted"

(***************************************************************************)
(* C23.  logout and the socket.                                            *)
(***************************************************************************)
\* C23: after logout, whatever the socket was doing (connecting, open,
\* closing, closed), once the effects have run the socket the effect held
\* has had close() called on it, socketConnected is false, and no socket
\* is created while the token is empty, that is until a login succeeds.
C23_LogoutReleasesSocket ==
  /\ [](app = "client" /\ token = "" /\ Settled =>
          /\ socketRef = 0
          /\ \A i \in 1..Len(sockets) : sockets[i] \in {"closing", "closed"}
          /\ socketConnected = FALSE)
  /\ [][app = "client" /\ Len(sockets') > Len(sockets) => token # "" /\ token' # ""]_vars

\* Signed out while a socket was live: the effect's cleanup has just
\* called close() on it and created no other.
C23_Witness ==
  /\ app = "client"
  /\ token = ""
  /\ status = "disconnected"
  /\ lastOp = "useLiveEvents:idle"
  /\ sockets # <<>>
  /\ sockets[Len(sockets)] = "closing"
  /\ localStorage[SESSION_STORAGE_KEY] = <<>>

(***************************************************************************)
(* C24.  The console's command form, its edit and delete buttons, and the  *)
(* events that announce what they did.                                     *)
(***************************************************************************)
\* The definitions the backend can answer a submitted form with: the id
\* of the command being edited, or the id it gives a new one.
SavedDefinitions ==
  [id : CmdIds, name : {"a", "B"}, allowArguments : {TRUE}, args : {<<>>}]

\* err instanceof Error ? err.message : <fallback>
formFailureMessage(failure, fallback) ==
  IF failure.isError THEN failure.message ELSE fallback

\* An updater that puts the saved definition in front without looking for
\* its id.
savedResultPrepend(prev, saved) == <<saved>> \o prev

\* The updater of handleFormSubmit: replace the entry of that id in place,
\* else put the saved definition in front.
savedResult(prev, saved) ==
  IF saved.id \in Ids(prev) THEN spliceAt(prev, saved.id, saved)
  ELSE <<saved>> \o prev

\* A request of the form or the delete button once both its answer and
\* its event have been handled is forgotten.
afterHalf(r, half) ==
  LET other == IF half = "answered" THEN "announced" ELSE "answered"
  IN IF r[other] THEN requests \ {r}
     ELSE (requests \ {r}) \cup {[r EXCEPT ![half] = TRUE]}

\* handleFormSubmit up to its await.  In 'edit' mode the form carries the
\* id of the selected command; otherwise the backend chooses the id.
handleFormSubmit(saved) ==
  /\ app = "console"
  /\ isMounted
  /\ issued < MaxRequests
  /\ selectedCommand # <<>> => saved.id = selectedCommand[1].id
  /\ issued' = issued + 1
  /\ requests' = requests \cup
       {[n |-> issued + 1, kind |-> "create_or_update_command", saved |-> saved,
         answered |-> FALSE, announced |-> FALSE]}
  /\ lastOp' = "handleFormSubmit"
  /\ UNCHANGED <<formVars, listenerVars, observerVars, sheetVars, app, collVars, sessionVars,
                 effectVars>>

\* create_or_update_command answered with the saved definition.
saveResolved(r) ==
  /\ app = "console"
  /\ isMounted
  /\ r \in requests /\ r.kind = "create_or_update_command" /\ ~r.answered
  /\ commands' = savedResult(commands, r.saved)
  /\ formMode' = "create"
  /\ selectedCommand' = <<>>
  /\ executionMessage' = <<"Command saved successfully">>
  /\ requests' = afterHalf(r, "answered")
  /\ lastOp' = (IF r.announced THEN "save:ok-after-event" ELSE "save:ok")
  /\ UNCHANGED <<listenerVars, observerVars, busyCommandId, parameterInput, sheetError, executing,
                 app, history, sessionVars, issued, effectVars>>

\* The backend's command_created / command_updated event for a save.
saveAnnounced(r) ==
  /\ app = "console"
  /\ unlistenPromise \in {"pending", "resolved"}
  /\ r \in requests /\ r.kind = "create_or_update_command" /\ ~r.announced
  /\ LET event == [type |-> "command_updated", payload |-> r.saved]
     IN /\ commands' = listenerResult(isMounted, Collections, event).commands
        /\ history' = listenerResult(isMounted, Collections, event).history
  /\ requests' = afterHalf(r, "announced")
  /\ lastOp' = (IF r.answered THEN "listener:after-save" ELSE "listener:before-save")
  /\ UNCHANGED <<formVars, listenerVars, observerVars, sheetVars, app, sessionVars, issued,
                 effectVars>>

\* create_or_update_command failed: nothing was saved or announced.
saveRejected(r, failure) ==
  /\ app = "console"
  /\ isMounted
  /\ r \in requests /\ r.kind = "create_or_update_command"
  /\ ~r.answered /\ ~r.announced
  /\ executionMessage' = <<formFailureMessage(failure, "Failed to save command")>>
  /\ requests' = requests \ {r}
  /\ lastOp' = "save:catch"
  /\ UNCHANGED <<listenerVars, observerVars, formMode, busyCommandId, sheetVars, app, collVars,
                 sessionVars, issued, effectVars>>

\* The "Edit" button of a listed command.
handleEdit(command) ==
  /\ app = "console"
  /\ isMounted
  /\ \E i \in 1..Len(commands) : commands[i] = command
  /\ formMode' = "edit"
  /\ selectedCommand' = <<command>>
  /\ executionMessage' = <<>>
  /\ lastOp' = "handleEdit"
  /\ UNCHANGED <<listenerVars, observerVars, busyCommandId, parameterInput, sheetError, executing,
                 app, collVars, sessionVars, requestVars, effectVars>>

\* "New command" / cancel, shown in 'edit' mode.
resetForm ==
  /\ app = "console"
  /\ isMounted
  /\ formMode = "edit"
  /\ selectedCommand' = <<>>
  /\ formMode' = "create"
  /\ executionMessage' = <<>>
  /\ lastOp' = "resetForm"
  /\ UNCHANGED <<listenerVars, observerVars, busyCommandId, parameterInput, sheetError, executing,
                 app, collVars, sessionVars, requestVars, effectVars>>

\* handleDelete up to its await; the handler keeps the selectedCommand of
\* the render it was created in.
handleDelete(command) ==
  /\ app = "console"
  /\ isMounted
  /\ issued < MaxRequests
  /\ \E i \in 1..Len(commands) : commands[i] = command
  /\ issued' = issued + 1
  /\ requests' = requests \cup
       {[n |-> issued + 1, kind |-> "delete_command", id |-> command.id,
         selected |-> selectedCommand, answered |-> FALSE, announced |-> FALSE]}
  /\ lastOp' = "handleDelete"
  /\ UNCHANGED <<formVars, listenerVars, observerVars, sheetVars, app, collVars, sessionVars,
                 effectVars>>

\* delete_command answered.
deleteResolved(r) ==
  /\ app = "console"
  /\ isMounted
  /\ r \in requests /\ r.kind = "delete_command" /\ ~r.answered
  /\ commands' = filterOutId(commands, r.id)
  /\ executionMessage' = <<"Command deleted">>
  /\ IF r.selected # <<>> /\ r.selected[1].id = r.id
       THEN selectedCommand' = <<>> /\ formMode' = "create"
       ELSE UNCHANGED <<selectedCommand, formMode>>
  /\ requests' = afterHalf(r, "answered")
  /\ lastOp' = (IF r.announced THEN "delete:ok-after-event" ELSE "delete:ok")
  /\ UNCHANGED <<listenerVars, observerVars, busyCommandId, parameterInput, sheetError, executing,
                 app, history, sessionVars, issued, effectVars>>

\* The backend's command_deleted event for a delete.
deleteAnnounced(r) ==
  /\ app = "console"
  /\ unlistenPromise \in {"pending", "resolved"}
  /\ r \in requests /\ r.kind = "delete_command" /\ ~r.announced
  /\ LET event == [type |-> "command_deleted", payload |-> [id |-> r.id]]
     IN /\ commands' = listenerResult(isMounted, Collections, event).commands
        /\ history' = listenerResult(isMounted, Collections, event).history
  /\ requests' = afterHalf(r, "announced")
  /\ lastOp' = (IF r.answered THEN "listener:after-delete" ELSE "listener:before-delete")
  /\ UNCHANGED <<formVars, listenerVars, observerVars, sheetVars, app, sessionVars, issued,
                 effectVars>>

\* delete_command failed: nothing was deleted or announced.
deleteRejected(r, failure) ==
  /\ app = "console"
  /\ isMounted
  /\ r \in requests /\ r.kind = "delete_command"
  /\ ~r.answered /\ ~r.announced
  /\ executionMessage' = <<formFailureMessage(failure, "Failed to delete command")>>
  /\ requests' = requests \ {r}
  /\ lastOp' = "delete:catch"
  /\ UNCHANGED <<listenerVars, observerVars, formMode, busyCommandId, sheetVars, app, collVars,
                 sessionVars, issued, effectVars>>

\* The console from its mount: the first refresh comes back, and the
\* administrator edits, saves and deletes commands.
NextForm ==
  \/ \E r \in requests, data \in CatalogResponses : refreshAnswered(r, "catalog", data)
  \/ \E r \in requests, data \in HistoryResponses : refreshAnswered(r, "log", data)
  \/ \E r \in requests, failure \in ConsoleFailures : refreshRejected(r, failure)
  \/ \E saved \in SavedDefinitions : handleFormSubmit(saved)
  \/ \E r \in requests : saveResolved(r)
  \/ \E r \in requests : saveAnnounced(r)
  \/ \E r \in requests, failure \in ConsoleFailures : saveRejected(r, failure)
  \/ \E command \in SavedDefinitions \cup {CmdB1, CmdA2} : handleEdit(command)
  \/ resetForm
  \/ \E command \in SavedDefinitions \cup {CmdB1, CmdA2} : handleDelete(command)
  \/ \E r \in requests : deleteResolved(r)
  \/ \E r \in requests : deleteAnnounced(r)
  \/ \E r \in requests, failure \in ConsoleFailures : deleteRejected(r, failure)

SpecForm == InitConsole /\ [][NextForm]_vars

\* The step in which the second of a request's answer and event is handled.
Settles(r) ==
  /\ r \in requests
  /\ r.kind \in {"create_or_update_command", "delete_command"}
  /\ r.answered \/ r.announced
  /\ \A q \in requests' : q.n # r.n

\* C24: once a successful save and its command_created / command_updated
\* event have both been handled, in either order, commands has exactly one
\* entry of that id and it is the saved definition; once a successful
\* delete and its command_deleted event have both been handled, in either
\* order, commands has no entry of that id.
C24_SaveAndEventAgree ==
  [][\A r \in requests :
       Settles(r) =>
         IF r.kind = "create_or_update_command"
           THEN /\ Cardinality({i \in 1..Len(commands') : commands'[i].id = r.saved.id}) = 1
                /\ \E i \in 1..Len(commands') : commands'[i] = r.saved
           ELSE r.id \notin Ids(commands')]_vars

\* The event of a save was handled first and its answer second, for a
\* command the list already held under another name.
C24_Witness ==
  /\ app = "console"
  /\ lastOp = "save:ok-after-event"
  /\ executionMessage = <<"Command saved successfully">>
  /\ Len(commands) = 2
  /\ \E i \in 1..Len(commands) : commands[i].id = 1 /\ commands[i].name = "a"

(***************************************************************************)
(* C25.  execute and the collections.                                      *)
(***************************************************************************)
\* The events that announce the logs execute calls are answered with, as
\* they start and as they finish.
ExecuteEvents ==
  {[type |-> executionEventType(st), payload |-> [response EXCEPT !.status = st]] :
     response \in ExecuteResponses, st \in {"pending", "success"}}

\* The sheet of a signed-in client whose socket is open: commands are
\* triggered while the events about their logs come in.
NextExecute ==
  \/ NextSheet
  \/ \E event \in ExecuteEvents : socketMessage(1, event)

SpecExecute == InitSheet /\ [][NextExecute]_vars

\* C25: a successful execute leaves commands and history as they are, and
\* so does the call itself; a log that history did not hold enters it only
\* in a step that integrates an execution_* event for it.
C25_ExecuteLeavesCollections ==
  /\ [][lastOp' \in {"handleExecute:post", "execute:ok"} =>
          commands' = commands /\ history' = history]_vars
  /\ [][\A id \in Ids(history') \ Ids(history) :
          /\ lastOp' = "execution:insert"
          /\ \E event \in ExecuteEvents :
               /\ event.payload.id = id
               /\ history' = upsertExecution(history, event.payload)]_vars

\* An execute call has just been answered while history already holds a
\* log that an event brought, and nothing of the call's own.
C25_Witness ==
  /\ lastOp = "execute:ok"
  /\ Len(history) = 1
  /\ selectedCommand = <<>>
  /\ ~executing

(***************************************************************************)
(* C26, C27, C29.  The client's integrateEvent and the console's listener  *)
(* on the same events.                                                     *)
(***************************************************************************)
MaxDelivered == 3     \* events in one replay

\* The events of a replay: commands whose names tie ignoring case or not,
\* logs whose instants tie or not.
ReplayEvents ==
       [type : {"command_created"},
        payload : [id : CmdIds, name : Names, allowArguments : {TRUE}, args : {<<>>}]]
  \cup [type : {"command_deleted"}, payload : [id : CmdIds]]
  \cup [type : {"execution_started"},
        payload : [id : LogIds, status : {"pending"}, startedAt : StartedAts]]

\* The client integrates one more event, and the observer notes it.
replay(event) ==
  /\ Len(delivered) < MaxDelivered
  /\ integrateEvent(event)
  /\ delivered' = Append(delivered, event)
  /\ UNCHANGED <<formVars, listenerVars, received, stable>>

NextReplay == \E event \in ReplayEvents : replay(event)

SpecReplay == InitEvents /\ [][NextReplay]_vars

\* What the console's listener makes of a sequence of events, from empty
\* lists.
RECURSIVE consoleReplay(_)
consoleReplay(events) ==
  IF events = <<>> THEN [commands |-> <<>>, history |-> <<>>]
  ELSE consoleEventResult(consoleReplay(SubSeq(events, 1, Len(events) - 1)),
                          events[Len(events)])

\* C26: for every sequence of events applied from an empty state, the
\* console's listener produces the same commands and history lists, entry
\* for entry in the same order, as the client's integrateEvent.
C26_Claimed_ConsoleEqualsClient ==
  consoleReplay(delivered) = Collections

\* The pairs of events the claim of commuting is about: two upserts of the
\* same collection for two distinct ids.
UpsertPairs ==
  {pair \in ReplayEvents \X ReplayEvents :
     /\ pair[1].type = pair[2].type
     /\ pair[1].type # "command_deleted"
     /\ pair[1].payload.id # pair[2].payload.id}

\* C27: upserts for two distinct ids commute: integrating them in either
\* order yields the same collection, also when the two entities have equal
\* names ignoring case or equal startedAt.
C27_Claimed_UpsertsCommute ==
  \A pair \in UpsertPairs :
    integrateEventResult(integrateEventResult(Collections, pair[1]), pair[2])
      = integrateEventResult(integrateEventResult(Collections, pair[2]), pair[1])

(***************************************************************************)
(* C29.  What integrateEvent leaves alone.                                 *)
(***************************************************************************)
CommandLabels ==
  {"command:replace", "command:insert", "command:delete", "command:delete-absent"}
ExecutionLabels == {"execution:replace", "execution:insert"}

\* C29: integrateEvent changes only the collection its event belongs to:
\* a command event leaves history alone and an execution event leaves
\* commands alone; a command_deleted for an id that is not in commands
\* changes nothing; and no event changes serverUrl, token, status,
\* socketConnected, loading, error or what is persisted.
C29_EventFrame ==
  [][lastOp' \in CommandLabels \cup ExecutionLabels =>
       /\ UNCHANGED <<serverUrl, token, status, socketConnected, loading, error, localStorage>>
       /\ lastOp' \in CommandLabels => history' = history
       /\ lastOp' \in ExecutionLabels => commands' = commands
       /\ lastOp' = "command:delete-absent" => commands' = commands]_vars

\* A command_deleted for a command the client does not hold arrived while
\* it holds another command and a log of the deleted command's id.
C29_Witness ==
  /\ lastOp = "command:delete-absent"
  /\ commands # <<>>
  /\ 1 \in Ids(history)
  /\ 1 \notin Ids(commands)
  /\ status = "connected"

(***************************************************************************)
(* C28.  The snapshot load that follows a login.                           *)
(***************************************************************************)
\* C28: when a successful login has turned the token from empty to
\* non-empty, the run of useHydrateSession that follows starts exactly one
\* snapshot load; and when a load succeeds, commands and history are the
\* server's two responses, sorted by name ignoring case and by startedAt
\* descending.
C28_Claimed_LoginTriggersLoad ==
  /\ [][lastOp = "login:ok" /\ hydrateDeps' # hydrateDeps =>
          Cardinality({r \in requests' \ requests : r.kind = "fetchData"}) = 1]_vars
  /\ [][lastOp' = "fetchData:ok" =>
          \E catalog \in CatalogResponses, log \in HistoryResponses :
            /\ commands' = sortCommands(catalog)
            /\ history' = sortHistory(log)]_vars

(***************************************************************************)
(* C31.  The size of the client's history after a snapshot load.           *)
(***************************************************************************)
\* What GET /api/history can answer with: a short list, or more logs than
\* the window integrateEvent keeps.
LongHistoryResponses == { <<Log1, Log2>>, Backlog(HistoryLimit + 1) }

\* The session life of the client (login, logout, the load after a login
\* or a restart, their late answers) with a server that keeps a long log.
NextSnapshot ==
  \/ \E url \in UrlInputs : login(url)
  \/ \E r \in requests, tok \in Tokens : loginResolved(r, tok)
  \/ \E r \in requests, failure \in Failures : loginRejected(r, failure)
  \/ logout
  \/ useHydrateSession
  \/ \E r \in requests, data \in CatalogResponses : fetchCatalogArrived(r, data)
  \/ \E r \in requests, data \in LongHistoryResponses : fetchHistoryArrived(r, data)
  \/ \E r \in requests, failure \in Failures : fetchRejected(r, failure)
  \/ useLiveEvents
  \/ \E i \in 1..MaxSockets : socketOpen(i)
  \/ \E i \in 1..MaxSockets, event \in PushedEvents : socketMessage(i, event)

SpecSnapshot == InitClient /\ [][NextSnapshot]_vars

\* C31: in every reachable state of the client, after any interleaving of
\* login, logout, fetchData and their late responses, history has at most
\* 100 entries, also right after a snapshot load whose history response
\* holds more than 100 logs.
C31_Claimed_HistoryBoundedAfterLoad ==
  app = "client" => Len(history) <= HistoryLimit

(***************************************************************************)
(* C32.  The size of the console's history.                                *)
(***************************************************************************)
ConsoleHistoryLabel == 50    \* "(latest 50 records)"

\* What list_history can answer with: nothing, or as many records as the
\* label names.
ConsoleHistoryResponses == { <<>>, Backlog(ConsoleHistoryLabel) }

\* The console from its mount: refreshes and execution events.
NextConsoleHistory ==
  \/ refresh
  \/ \E r \in requests, data \in CatalogResponses : refreshAnswered(r, "catalog", data)
  \/ \E r \in requests, data \in ConsoleHistoryResponses : refreshAnswered(r, "log", data)
  \/ \E r \in requests, failure \in ConsoleFailures : refreshRejected(r, failure)
  \/ \E event \in ExecuteEvents : consoleListener(event)

SpecConsoleHistory == InitConsole /\ [][NextConsoleHistory]_vars

\* C32: the console's history list never holds more than 50 records,
\* after any sequence of execution events and refreshes.
C32_Claimed_ConsoleHistoryBounded ==
  app = "console" => Len(history) <= ConsoleHistoryLabel

(***************************************************************************)
(* C33.  Status and token.                                                 *)
(***************************************************************************)
\* C33: in every reachable state of the client store, status 'connected'
\* implies a non-empty token, whatever the interleaving of login, logout,
\* fetchData and their responses.
C33_Claimed_ConnectedHasToken ==
  app = "client" /\ status = "connected" => token # ""

(***************************************************************************)
(* C34.  The persisted session record and the store.                       *)
(***************************************************************************)
\* C34: whenever a persisted session record exists, its serverUrl and
\* token are the store's serverUrl and token; and whenever the store's
\* token is non-empty, a persisted session record exists.
C34_Claimed_RecordMatchesStore ==
  app = "client" =>
    /\ localStorage[SESSION_STORAGE_KEY] # <<>> =>
         /\ localStorage[SESSION_STORAGE_KEY][1].serverUrl = serverUrl
         /\ localStorage[SESSION_STORAGE_KEY][1].token = token
    /\ token # "" => localStorage[SESSION_STORAGE_KEY] # <<>>

(***************************************************************************)
(* C35.  A push event integrated while a snapshot load is in flight.       *)
(***************************************************************************)
\* A load is in flight whose catalog answer, already in hand, holds the
\* command of this id: the server took it before the event was integrated.
SnapshotInHandHolds(id) ==
  \E r \in requests :
    /\ r.kind = "fetchData"
    /\ r.catalog # <<>>
    /\ id \in Ids(r.catalog[1])

\* C35: a push event integrated while a snapshot load is in flight is not
\* undone when the snapshot is applied: if command_deleted(c) has just
\* been integrated after the server took the snapshot and before its
\* response is set, then c is still absent once the response is set.
C35_Claimed_EventSurvivesSnapshot ==
  [][\A event \in PushedEvents :
       /\ event.type = "command_deleted"
       /\ lastOp = "command:delete"
       /\ SnapshotInHandHolds(event.payload.id)
       /\ lastOp' = "fetchData:ok"
       => event.payload.id \notin Ids(commands')]_vars

(***************************************************************************)
(* C36.  socketConnected and the socket the effect holds.                  *)
(***************************************************************************)
\* The socket useLiveEvents holds is open.
CurrentSocketOpen == socketRef # 0 /\ sockets[socketRef] = "open"

\* C36: socketConnected is true only while the socket the effect holds is
\* open; and while that socket is open and the effects have run,
\* socketConnected is true: an open, close or error event of a socket that
\* was replaced does not change it.
C36_Claimed_ConnectedFollowsCurrentSocket ==
  app = "client" =>
    /\ socketConnected => CurrentSocketOpen
    /\ Settled /\ CurrentSocketOpen => socketConnected

(***************************************************************************)
(* C37.  The detail sheet while events change its command.                 *)
(***************************************************************************)
\* Events about the command on show: custom parameters are switched off,
\* with or without default args, or the command is deleted.
SheetEvents ==
  { [type |-> "command_updated",
     payload |-> [id |-> 1, name |-> "a", allowArguments |-> FALSE, args |-> <<>>]],
    [type |-> "command_updated",
     payload |-> [id |-> 1, name |-> "a", allowArguments |-> FALSE, args |-> << <<"b">> >>]],
    [type |-> "command_deleted", payload |-> [id |-> 1]] }

\* The sheet of a signed-in client whose socket is open, while events
\* about its command arrive.
NextSheetEvents ==
  \/ NextSheet
  \/ \E event \in SheetEvents : socketMessage(1, event)

SpecSheetEvents == InitSheet /\ [][NextSheetEvents]_vars

\* C37: no execute request with parameters of its own (not empty, and not
\* the default args) is sent for a command whose entry in the store's
\* commands has allowArguments false at that moment, also when an event
\* changed the entry after the sheet was opened.
C37_Claimed_NoCustomParametersWhenFixed ==
  [][lastOp' = "handleExecute:post" =>
       \A r \in requests' \ requests :
         \A i \in 1..Len(commands) :
           commands[i].id = r.commandId /\ ~commands[i].allowArguments =>
             r.parameters = <<>> \/ r.parameters = commands[i].args]_vars

\* ---------------------------------------------------------------------
\* The loading flag and the requests in flight
\* ---------------------------------------------------------------------

LoadingRequestPending ==
  \E r \in requests : r.kind \in {"login", "fetchData"}

LoadingSettleLabels ==
  {"login:ok", "login:catch", "fetchData:ok", "fetchData:catch",
   "fetchData:catch-after-answer"}

\* C38: in the client, loading is true exactly while a login or fetchData
\* request is in flight: it is never false while one is pending, and the
\* step in which such a request succeeds or fails leaves loading false.
C38_LoadingTracksRequests ==
  /\ [](app = "client" => (loading <=> LoadingRequestPending))
  /\ [][app = "client" /\ lastOp' \in LoadingSettleLabels
          /\ requests' # requests => ~loading']_vars

\* A load is still in flight when the user signs out: loading stays true on
\* the login screen until that load answers or fails.
C38_Witness ==
  /\ app = "client" /\ lastOp = "logout"
  /\ loading /\ \E r \in requests : r.kind = "fetchData"

(***************************************************************************)
(* SpecGuarded: the whole client with the detail sheet, without pushed     *)
(* events: sign-in, sign-out, the load, the socket, and execute calls made *)
(* from the sheet, also when the store holds a token and no address.       *)
(***************************************************************************)
NextGuarded ==
  \/ \E url \in UrlInputs : setServerUrl(url)
  \/ \E url \in UrlInputs : login(url)
  \/ \E r \in requests, tok \in Tokens : loginResolved(r, tok)
  \/ logout
  \/ useHydrateSession
  \/ \E r \in requests : fetchCatalogArrived(r, <<CmdB1, CmdA2>>)
  \/ \E r \in requests : fetchHistoryArrived(r, <<>>)
  \/ useLiveEvents
  \/ \E i \in 1..MaxSockets : socketOpen(i)
  \/ openSheet(CmdB1)
  \/ closeSheet
  \/ handleExecute
  \/ \E r \in requests, response \in ExecuteResponses : executeResolved(r, response)
  \/ \E r \in requests, failure \in Failures : executeRejected(r, failure)

SpecGuarded == InitClient /\ [][NextGuarded]_vars

\* The store's fields other than error are left as they were.
StoreKeptButError ==
  UNCHANGED <<commands, history, serverUrl, token, status, socketConnected,
              loading, localStorage>>

\* C39: without a token or without an address, execute and fetchData send
\* nothing and leave the store alone: execute rejects with 'Not
\* authenticated' (the sheet shows it; Dashboard has cleared error before
\* the call), fetchData returns; an execute that fails sets error to the
\* failure's message, leaves every other field and rethrows (the sheet,
\* still open, shows the message and stops executing).
C39_GuardedCallsLeaveStore ==
  [][/\ lastOp' = "handleExecute:not-authenticated" =>
          /\ serverUrl = <<>> \/ token = ""
          /\ UNCHANGED requestVars
          /\ StoreKeptButError /\ error' = <<>>
          /\ sheetError' = <<"Not authenticated">>
     /\ lastOp' = "fetchData:start" /\ (serverUrl = <<>> \/ token = "") =>
          /\ UNCHANGED requestVars
          /\ StoreKeptButError /\ UNCHANGED error
     /\ lastOp' = "execute:catch" =>
          /\ StoreKeptButError
          /\ UNCHANGED issued
          /\ \E failure \in Failures :
               /\ error' = <<failureMessage(failure, "Command failed")>>
               /\ \A r \in requests \ requests' :
                    r.awaited /\ selectedCommand # <<>> =>
                      sheetError' = <<failure.message>> /\ ~executing']_vars

\* The store holds a token and no address, the catalog of an earlier
\* session is on screen, and Execute has just been refused.
C39_Witness ==
  /\ lastOp = "handleExecute:not-authenticated"
  /\ serverUrl = <<>> /\ token # "" /\ requests = {}
  /\ sheetError = <<"Not authenticated">>

====
